---- MODULE Spec2Model ----
(***************************************************************************)
(* Cross-chain atomic swap coordination (Optimism <-> Aptos).              *)
(*                                                                         *)
(* Three programs of the repository are modelled, one per behaviour:       *)
(*   prog = "main"   main() of tests/create-order.ts (Aptos -> Optimism)   *)
(*   prog = "coord"  CrossChainCoordinator.processCrossChainEvents with    *)
(*                   AptosIntegration.completeCrossChainSwap               *)
(*                   (Optimism -> Aptos)                                   *)
(*   prog = "test"   the jest test of tests/main.spec.ts                   *)
(*   prog = "unit"   one call of a function on given arguments             *)
(*   prog = "escrow" the life of the two escrows of one swap on their      *)
(*                   chains, under calls of any party                      *)
(*   prog = "pair"   two calls of processCrossChainEvents on one           *)
(*                   coordinator, interleaved at their awaits              *)
(* The repository holds two builds of AptosIntegration                     *)
(* (tests/aptos-integration.ts and unnamed/part_001); `variant` says which *)
(* one the coordinator is linked against.                                  *)
(***************************************************************************)
EXTENDS Integers, Sequences, FiniteSets, TLC

VARIABLES
    prog,            \* which program runs
    variant,         \* which build of AptosIntegration: "tests" or "part_001"
    now,             \* wall clock / chain time, in seconds
    secret,          \* the order's secret (32 bytes)
    txs,             \* every transaction submitted so far, in order
    srcEscrow,       \* the source-chain escrow, as the chain holds it
    dstEscrow,       \* the destination-chain escrow, as the chain holds it
    dstCreated,      \* number of destination-escrow creations committed
    pc,              \* position of the running program
    order,           \* Aptos fusion order, as the chain holds it
    acceptTxHash,    \* main: result of acceptFusionOrder
    escrowEventData, \* main: result of getEscrowEventData
    evmResult,       \* main: result of deployDst
    config,          \* coord: config.crossChain
    srcEscrowEvent,  \* coord/test: [immutables, complement] of SrcEscrowCreated
    eventData,       \* coord: CrossChainEventData
    attempt,         \* coord: retry loop counter
    lastError,       \* coord: last caught error
    result,          \* coord: value returned by completeCrossChainSwap
    thrown,          \* coord: error thrown by processCrossChainEvents
    createRes,       \* coord: value returned by createDestinationEscrow
    calls,           \* coord: history of completeCrossChainSwap calls
    waits,           \* history of the timed waits made, in order
    i,               \* test: loop counter of getSrcDeployEvent
    queries,         \* test: the getLogs queries of the latest attempt
    srcLog,          \* test: the SrcEscrowCreated log the source chain holds
    arg,             \* unit: the arguments of the function called
    ret,             \* unit: the value the function returned
    swaps            \* pair: the locals and the transactions of each call

vars == <<prog, variant, now, secret, txs, srcEscrow, dstEscrow, dstCreated, pc,
          order, acceptTxHash, escrowEventData, evmResult, config,
          srcEscrowEvent, eventData, attempt, lastError, result, thrown,
          createRes, calls, waits, i, queries, srcLog, arg, ret, swaps>>

----------------------------------------------------------------------------
(* Bounds of the model *)

\* number of distinct 32-byte values
NumBytes32 == 3
\* largest configured retryAttempts explored
MaxRetryAttempts == 3
\* a slow network round trip, in seconds
SlowLatency == 100
\* latest time at which a network round trip may still be slow
MaxTime == 260
\* largest amount, decay and elapsed time of the auction calls explored
MaxAmount == 4
MaxDecay == 2
MaxElapsed == 3
\* width of one timelock lane, in bits (32 in the source, scaled)
LaneBits == 9

Bytes32 == 0 .. (NumBytes32 - 1)

\* absent value (null / undefined)
Null == "null"

\* an absent object
NullRecord == [undefined |-> TRUE]

----------------------------------------------------------------------------
(* Strings are sequences of one-character strings. *)

HexLower == {"0", "1", "2", "3", "4", "5", "6", "7", "8", "9",
             "a", "b", "c", "d", "e", "f"}

\* String.prototype.toLowerCase on one character
LowerChar(c) ==
    CASE c = "A" -> "a" [] c = "B" -> "b" [] c = "C" -> "c"
      [] c = "D" -> "d" [] c = "E" -> "e" [] c = "F" -> "f"
      [] c = "X" -> "x" [] OTHER -> c

toLowerCase(s) == [k \in 1 .. Len(s) |-> LowerChar(s[k])]

startsWith(s, p) == Len(s) >= Len(p) /\ SubSeq(s, 1, Len(p)) = p

\* s.replace(/^0x0x/, '0x')
replace0x0x(s) ==
    IF startsWith(s, <<"0", "x", "0", "x">>) THEN SubSeq(s, 3, Len(s)) ELSE s

\* s.padStart(n, '0')
RECURSIVE padStart(_, _)
padStart(s, n) == IF Len(s) >= n THEN s ELSE padStart(<<"0">> \o s, n)

\* width receiverHex / takerAssetHex are padded to (40 in the source, scaled
\* to the two-digit digests of the model)
PadWidth == 2

\* the configured Aptos addresses and one foreign address
AptosReceiverAddress == <<"0", "x", "8", "b">>
AptosTakerAssetAddress == <<"0", "x", "0", "a">>
OtherAddress == <<"0", "x", "f", "f">>

\* crypto.createHash('sha1').update(a).digest('hex'): lower-case hex digits
sha1hex(a) ==
    CASE a = AptosReceiverAddress -> <<"c", "4">>
      [] a = AptosTakerAssetAddress -> <<"0", "e">>
      [] OTHER -> <<"7", "d">>

\* the digests an EVM address field of the source event may hold
Digests == {sha1hex(AptosReceiverAddress), sha1hex(AptosTakerAssetAddress),
            sha1hex(OtherAddress)}

\* the value of one hex digit
HexDigitValue(c) ==
    CASE c = "0" -> 0 [] c = "1" -> 1 [] c = "2" -> 2 [] c = "3" -> 3
      [] c = "4" -> 4 [] c = "5" -> 5 [] c = "6" -> 6 [] c = "7" -> 7
      [] c = "8" -> 8 [] c = "9" -> 9 [] c = "a" -> 10 [] c = "b" -> 11
      [] c = "c" -> 12 [] c = "d" -> 13 [] c = "e" -> 14 [] c = "f" -> 15

HexDigit(v) ==
    <<"0", "1", "2", "3", "4", "5", "6", "7", "8", "9",
      "a", "b", "c", "d", "e", "f">>[v + 1]

\* the unsigned integer an address field of an event holds for hex digits d
RECURSIVE HexValue(_)
HexValue(d) ==
    IF d = <<>> THEN 0
    ELSE 16 * HexValue(SubSeq(d, 1, Len(d) - 1)) + HexDigitValue(d[Len(d)])

\* BigInt.prototype.toString(16): no leading zeros
RECURSIVE toString16(_)
toString16(n) ==
    IF n < 16 THEN <<HexDigit(n)>>
    ELSE toString16(n \div 16) \o <<HexDigit(n % 16)>>

\* number of hex digits of an EVM address and of a SHA-1 digest (40 in the
\* source)
AddressDigits == Len(sha1hex(AptosReceiverAddress))

\* Address.fromBigInt without the padding to the full width
fromBigInt_noPad(n) == toString16(n)

\* Sdk.Address.fromBigInt(n): the hex digits of n at the full width of an
\* address
fromBigInt(n) == padStart(toString16(n), AddressDigits)

\* Sdk.Address.toString(): '0x' followed by the hex digits
AddressToString(d) == <<"0", "x">> \o d

\* keccak256 on 32-byte values: one-way, no value is its own hash
keccak256(s) == (s + 1) % NumBytes32

\* CrossChainCoordinator.generateSha1Hashes for the two configured addresses
generateSha1Hashes(receiverAddress, takerAssetAddress) ==
    [receiverSha1 |-> <<"0", "x">> \o sha1hex(receiverAddress),
     takerAssetSha1 |-> <<"0", "x">> \o sha1hex(takerAssetAddress)]

\* verifySha1Hashes comparing against the bare digest, without the '0x'
verifySha1Hashes_bareDigest(ed) ==
    /\ toLowerCase(replace0x0x(ed.receiverSha1))
           = toLowerCase(sha1hex(ed.originalReceiverAddress))
    /\ toLowerCase(replace0x0x(ed.takerAssetSha1))
           = toLowerCase(sha1hex(ed.originalTakerAssetAddress))

\* verifySha1Hashes without the cleaning of a doubled prefix
verifySha1Hashes_noClean(ed) ==
    /\ toLowerCase(ed.receiverSha1)
           = toLowerCase(<<"0", "x">> \o sha1hex(ed.originalReceiverAddress))
    /\ toLowerCase(ed.takerAssetSha1)
           = toLowerCase(<<"0", "x">> \o sha1hex(ed.originalTakerAssetAddress))

\* verifySha1Hashes with the comparison of the receiver left out
verifySha1Hashes_noReceiver(ed) ==
    toLowerCase(replace0x0x(ed.takerAssetSha1))
        = toLowerCase(<<"0", "x">> \o sha1hex(ed.originalTakerAssetAddress))

verifySha1Hashes(ed) ==
    LET expectedReceiverSha1 == <<"0", "x">> \o sha1hex(ed.originalReceiverAddress)
        expectedTakerAssetSha1 == <<"0", "x">> \o sha1hex(ed.originalTakerAssetAddress)
        cleanReceiverSha1 == replace0x0x(ed.receiverSha1)
        cleanTakerAssetSha1 == replace0x0x(ed.takerAssetSha1)
        isReceiverMatch == toLowerCase(cleanReceiverSha1) = toLowerCase(expectedReceiverSha1)
        isTakerAssetMatch == toLowerCase(cleanTakerAssetSha1) = toLowerCase(expectedTakerAssetSha1)
    IN  isReceiverMatch /\ isTakerAssetMatch

----------------------------------------------------------------------------
(* Timelocks *)

srcWithdrawal == 10
srcPublicWithdrawal == 20
srcCancellation == 121
srcPublicCancellation == 122
dstWithdrawal == 10
dstPublicWithdrawal == 100
dstCancellation == 101

LaneBase == 2 ^ LaneBits

\* the k-th lane of a non-negative integer n (n >> (k * LaneBits)) & mask
RECURSIVE Lane(_, _)
Lane(n, k) == IF k = 0 THEN n % LaneBase ELSE Lane(n \div LaneBase, k - 1)

\* bitwise OR of two non-negative integers
RECURSIVE BitOr(_, _)
BitOr(a, b) ==
    IF a = 0 THEN b
    ELSE IF b = 0 THEN a
    ELSE (IF a % 2 = 1 \/ b % 2 = 1 THEN 1 ELSE 0) + 2 * BitOr(a \div 2, b \div 2)

\* the offsets with the last two of the destination role exchanged
TimelockOffsets_swapped ==
    <<srcWithdrawal, srcPublicWithdrawal, srcCancellation, srcPublicCancellation,
      dstWithdrawal, dstCancellation, dstPublicWithdrawal>>

\* the offsets in lane order 1..7
TimelockOffsets ==
    <<srcWithdrawal, srcPublicWithdrawal, srcCancellation, srcPublicCancellation,
      dstWithdrawal, dstPublicWithdrawal, dstCancellation>>

\* createManualTimelocks with the shift of srcWithdrawal left out
createManualTimelocks_noShift(deployedAt) ==
    [k \in 0 .. 7 |->
        IF k = 0 THEN BitOr(Lane(deployedAt, 0), srcWithdrawal)
        ELSE IF k = 1 THEN Lane(deployedAt, 1)
        ELSE BitOr(Lane(deployedAt, k), TimelockOffsets[k])]

\* createManualTimelocks with the shifts of the two source cancellation
\* offsets exchanged
createManualTimelocks_cancelShifts(deployedAt) ==
    [k \in 0 .. 7 |->
        IF k = 0 THEN Lane(deployedAt, 0)
        ELSE IF k = 3 THEN BitOr(Lane(deployedAt, 3), srcPublicCancellation)
        ELSE IF k = 4 THEN BitOr(Lane(deployedAt, 4), srcCancellation)
        ELSE BitOr(Lane(deployedAt, k), TimelockOffsets[k])]

\* createManualTimelocks(deployedAt): the packed value as its eight lanes,
\* lane 0 lowest; timelocks | (offset << 32k) ORs into lane k whatever bits of
\* deployedAt reach it
createManualTimelocks(deployedAt) ==
    [k \in 0 .. 7 |->
        IF k = 0 THEN Lane(deployedAt, 0)
        ELSE BitOr(Lane(deployedAt, k), TimelockOffsets[k])]

----------------------------------------------------------------------------
(* The chains, as far as the programs observe them *)

NoEscrow == [status |-> "none", hashlock |-> Null, deployedAt |-> 0, amount |-> 0]

LockedEscrow(h, t, a) ==
    [status |-> "locked", hashlock |-> h, deployedAt |-> t, amount |-> a]

\* the chain accepts a withdrawal: hashlock opened by s, inside the window
CanWithdraw(e, s, t, from, until) ==
    /\ e.status = "locked"
    /\ keccak256(s) = e.hashlock
    /\ t - e.deployedAt >= from
    /\ t - e.deployedAt < until

\* the chain accepts a cancellation: still locked, cancellation offset reached
CanCancel(e, t, from) ==
    /\ e.status = "locked"
    /\ t - e.deployedAt >= from

\* the times at which an operation started now, with d seconds of timed wait
\* before it, may complete: a network round trip is instant, short or slow
After(d) ==
    {now + d + l : l \in {x \in {0, 1, SlowLatency} : x = 0 \/ now + d + x <= MaxTime}}

\* the arguments of a transaction the properties look at; absent ones are -1
NoArgs ==
    [secret |-> -1, hash |-> -1, base |-> -1, amount |-> -1, escrowAt |-> -1,
     value |-> [hi |-> -1, lo |-> -1]]

\* a submitted transaction, as recorded in txs: escrowAt is the deployment
\* time of the escrow a withdrawal addresses, committed whether the chain
\* executed it successfully
Tx(chain, fn, leg, args, at, committed) ==
    [chain |-> chain, fn |-> fn, leg |-> leg, args |-> args, at |-> at,
     committed |-> committed]

\* the auction price without its floor
currentAmount_noFloor(initial, min, decayPerSecond, elapsed) ==
    initial - decayPerSecond * elapsed

\* the auction price the Aptos contract reports at acceptance
currentAmount(initial, min, decayPerSecond, elapsed) ==
    IF initial - decayPerSecond * elapsed > min
    THEN initial - decayPerSecond * elapsed
    ELSE min

\* the destination token of the orders main creates, and the hex string the
\* chain renders the bytes evmAddressToAptosVector(USDC_ADDRESS) as
USDC_ADDRESS == "0x0b2C639c533813f4Aa9D7837CAf62653d097Ff85"
DestinationAssetHex == "0x0b2c639c533813f4aa9d7837caf62653d097ff85"

\* the token deployDst compares the destination asset with
ZeroAddress == "0x0000000000000000000000000000000000000000"

\* amounts of wei are numbers of two limbs, hi * 10^9 + lo
BigInt(n) == [hi |-> n \div 1000000000, lo |-> n % 1000000000]

BigAdd(a, b) ==
    [hi |-> a.hi + b.hi + (a.lo + b.lo) \div 1000000000,
     lo |-> (a.lo + b.lo) % 1000000000]

\* parseEther('0.00001'): 10^13 wei
safetyDeposit == [hi |-> 10000, lo |-> 0]

\* the accepted amount added whatever the token
nativeAmount_always(token, currentPrice) ==
    BigAdd(safetyDeposit, BigInt(currentPrice))

\* the native value deployDst sends with the deployment
nativeAmount(token, currentPrice) ==
    IF token = ZeroAddress
    THEN BigAdd(safetyDeposit, BigInt(currentPrice))
    ELSE safetyDeposit

\* number of hex digits of a secret (64 in the source, scaled)
SecretDigits == 2

\* the character class [a-fA-F0-9]
HexAny == HexLower \cup {"A", "B", "C", "D", "E", "F"}

\* s.replace('0x', ''): the first occurrence of "0x" is removed, wherever it is
RECURSIVE replaceFirst0x(_)
replaceFirst0x(s) ==
    IF Len(s) < 2 THEN s
    ELSE IF s[1] = "0" /\ s[2] = "x" THEN SubSeq(s, 3, Len(s))
    ELSE <<s[1]>> \o replaceFirst0x(SubSeq(s, 2, Len(s)))

\* /^[a-fA-F0-9]{64}$/.test(clean)
IsSecretHex(clean) ==
    /\ Len(clean) = SecretDigits
    /\ \A k \in 1 .. Len(clean) : clean[k] \in HexAny

\* CrossChainCoordinator.validateSecret(secret)
validateSecret(s) == IsSecretHex(replaceFirst0x(s))

\* the strings validateSecret is called with: digits and other characters, of
\* the right length, one less and one more, bare and with "0x", "0X" or
\* "0x0x" in front, or with "0x" after any of their characters
SecretBodies ==
    UNION {[1 .. n -> {"0", "a", "F", "g"}] :
               n \in SecretDigits - 1 .. SecretDigits + 1}

SecretStrings ==
    SecretBodies
        \cup UNION {{SubSeq(b, 1, k) \o <<"0", "x">> \o SubSeq(b, k + 1, Len(b)) :
                        k \in 0 .. Len(b)} : b \in SecretBodies}
        \cup {<<"0", "X">> \o b : b \in SecretBodies}
        \cup {<<"0", "x", "0", "x">> \o b : b \in SecretBodies}

SecretCalls == [fn : {"validateSecret"}, secret : SecretStrings]

\* the event types getEscrowEventData looks for
AcceptanceEvents == {"FusionOrderAcceptedEvent", "EscrowCreatedEvent"}

\* what the fullnode may answer to the fetch of the acceptance transaction:
\* the fetch throws or not, the response is ok or not, the events it lists,
\* and the escrow object named by the EscrowCreatedEvent
Responses ==
    [threw : BOOLEAN, ok : BOOLEAN, events : SUBSET AcceptanceEvents,
     inner : {"aptos_escrow", Null}]

\* getEscrowEventData returning data as soon as one of the events is there
EventDataOf_eitherEvent(resp, accepted) ==
    IF /\ ~resp.threw
       /\ resp.ok
       /\ \/ "FusionOrderAcceptedEvent" \in resp.events
          \/ "EscrowCreatedEvent" \in resp.events
    THEN [fusionOrder |-> [hash |-> accepted.hash,
                           destinationAsset |-> accepted.destinationAsset,
                           currentPrice |-> accepted.currentPrice,
                           auctionStartTime |-> accepted.auctionStartTime],
          escrow |-> [address |-> resp.inner]]
    ELSE NullRecord

\* the value getEscrowEventData returns for a response, accepted being the
\* data of the FusionOrderAcceptedEvent; null is the absent object
EventDataOf(resp, accepted) ==
    IF /\ ~resp.threw
       /\ resp.ok
       /\ "FusionOrderAcceptedEvent" \in resp.events
       /\ "EscrowCreatedEvent" \in resp.events
    THEN [fusionOrder |-> [hash |-> accepted.hash,
                           destinationAsset |-> accepted.destinationAsset,
                           currentPrice |-> accepted.currentPrice,
                           auctionStartTime |-> accepted.auctionStartTime],
          escrow |-> [address |-> resp.inner]]
    ELSE NullRecord

----------------------------------------------------------------------------
(* Initial states *)

\* amounts the source event's complement may carry
EventAmounts == {10, 11}

\* defaultCrossChainConfig.crossChain.retryDelay, seconds
retryDelay == 2

\* what the actions of a program other than the test and the unit calls
\* never change
fixed == <<prog, variant, secret, config, srcEscrowEvent, srcLog, arg, ret, swaps,
           queries>>
mainVars == <<order, acceptTxHash, escrowEventData, evmResult>>
coordVars == <<eventData, attempt, lastError, result, thrown, createRes, calls>>

InitCommon ==
    /\ secret \in Bytes32
    /\ queries = <<>>
    /\ txs = <<>>
    /\ dstCreated = 0
    /\ order = NullRecord
    /\ acceptTxHash = Null
    /\ escrowEventData = NullRecord
    /\ evmResult = NullRecord
    /\ eventData = NullRecord
    /\ attempt = 0
    /\ lastError = Null
    /\ result = NullRecord
    /\ thrown = NullRecord
    /\ createRes = NullRecord
    /\ calls = 0
    /\ waits = <<>>
    /\ i = 0
    /\ srcLog = NullRecord
    /\ ret = NullRecord

\* processCrossChainEvents is called with the secret and the SrcEscrowCreated
\* event of a source escrow that exists on Optimism
InitCoord ==
    /\ swaps = <<>>
    /\ prog = "coord"
    /\ pc = "c_build"
    /\ variant \in {"tests", "part_001"}
    /\ config \in [retryAttempts : 0 .. MaxRetryAttempts, retryDelay : {retryDelay}]
    /\ srcEscrowEvent \in [hashLock : {keccak256(secret)}, maker : Digests,
                           token : Digests, amount : EventAmounts]
    /\ srcEscrow = LockedEscrow(keccak256(secret), 0, 10)
    /\ dstEscrow = NoEscrow
    /\ now = 0
    /\ arg = NullRecord

\* main() starts with nothing on either chain
InitMain ==
    /\ swaps = <<>>
    /\ prog = "main"
    /\ pc = "m_start"
    /\ variant = "part_001"
    /\ config = NullRecord
    /\ srcEscrowEvent = NullRecord
    /\ srcEscrow = NoEscrow
    /\ dstEscrow = NoEscrow
    /\ now = 0
    /\ arg = NullRecord

\* the jest test starts with nothing on the source chain
InitTest ==
    /\ swaps = <<>>
    /\ prog = "test"
    /\ pc = "t_start"
    /\ variant = "part_001"
    /\ config = NullRecord
    /\ srcEscrowEvent = NullRecord
    /\ srcEscrow = NoEscrow
    /\ dstEscrow = NoEscrow
    /\ now = 0
    /\ arg = NullRecord

\* String.prototype.toUpperCase on the hex digits of a commitment
UpperChar(c) ==
    CASE c = "a" -> "A" [] c = "b" -> "B" [] c = "c" -> "C"
      [] c = "d" -> "D" [] c = "e" -> "E" [] c = "f" -> "F" [] OTHER -> c

\* the addresses a caller may claim as originals
Addresses == {AptosReceiverAddress, AptosTakerAssetAddress, OtherAddress}

\* the ways a commitment is written: its digits, in lower or upper case, after
\* one '0x' or a doubled one
CommitmentForms == [digits : Digests, doubled : BOOLEAN, upper : BOOLEAN]

\* the string of a commitment written in form f
Render(f) ==
    (IF f.doubled THEN <<"0", "x", "0", "x">> ELSE <<"0", "x">>)
        \o (IF f.upper THEN [k \in 1 .. Len(f.digits) |-> UpperChar(f.digits[k])]
            ELSE f.digits)

\* the calls of verifySha1Hashes: event data with each commitment in each form
VerifyCalls ==
    {[fn |-> "verifySha1Hashes", receiver |-> r, asset |-> a,
      ed |-> [receiverSha1 |-> Render(r), takerAssetSha1 |-> Render(a),
              amount |-> 10, secret |-> 0,
              originalReceiverAddress |-> origR,
              originalTakerAssetAddress |-> origT]] :
        r \in CommitmentForms, a \in CommitmentForms,
        origR \in Addresses, origT \in {AptosTakerAssetAddress, OtherAddress}}

\* deployedAt values that do not fit one lane
OverflowTimes ==
    {m * LaneBase + x : m \in {1, 2, 31, LaneBase}, x \in {0, 7}}

\* the calls of createManualTimelocks
TimelockCalls ==
    {[fn |-> "createManualTimelocks", deployedAt |-> t] :
        t \in (0 .. (LaneBase - 1)) \cup OverflowTimes}

WithdrawFunctions ==
    {"withdrawFromDestinationEscrow", "withdrawOnAptos", "withdrawOnOptimism"}

\* the calls of the withdrawal functions: any 32-byte value as the secret, on
\* escrows in any phase
WithdrawCalls ==
    [fn : WithdrawFunctions, secret : Bytes32,
     status : {"locked", "withdrawn", "cancelled"}]

\* the calls of currentAmount: small parameters with initial >= min >= 0, and
\* the scenario of the README in tenths of a USDC (102.0, 98.0, 0.2 per second)
AuctionCalls ==
    {c \in [fn : {"currentAmount"}, initial : 0 .. MaxAmount, min : 0 .. MaxAmount,
            decay : 0 .. MaxDecay, t : 0 .. MaxElapsed] : c.initial >= c.min}
    \cup {[fn |-> "currentAmount", initial |-> 1020, min |-> 980, decay |-> 2,
           t |-> t] : t \in {0, 9, 10, 11, 19, 20, 21, 25}}

\* the calls of getEscrowEventData: one per answer of the fullnode
EventDataCalls == [fn : {"getEscrowEventData"}, resp : Responses]

\* the calls of deployDst that differ in the native value: the destination
\* token and the accepted price of the event data
DeployCalls ==
    [fn : {"deployDst"}, token : {ZeroAddress, DestinationAssetHex, USDC_ADDRESS},
     currentPrice : {9000, 9500, 10000}]

UnitCalls ==
    VerifyCalls \cup TimelockCalls \cup WithdrawCalls \cup AuctionCalls
        \cup EventDataCalls \cup DeployCalls \cup SecretCalls

\* the time of a withdrawal call: the 20 s wait of withdrawOnOptimism ends
\* when the public withdrawal of the destination opens
WithdrawCallTime == dstPublicWithdrawal - 20

\* a function is called on its own with given arguments
InitUnit ==
    /\ swaps = <<>>
    /\ prog = "unit"
    /\ pc = "u_call"
    /\ variant = "part_001"
    /\ config = NullRecord
    /\ srcEscrowEvent = NullRecord
    /\ arg \in UnitCalls
    /\ IF arg \in WithdrawCalls
       THEN /\ srcEscrow = [LockedEscrow(keccak256(secret), 0, 10)
                               EXCEPT !.status = arg.status]
            /\ dstEscrow = [LockedEscrow(keccak256(secret), 0, 10)
                               EXCEPT !.status = arg.status]
            /\ now = WithdrawCallTime
       ELSE /\ srcEscrow = NoEscrow
            /\ dstEscrow = NoEscrow
            /\ now = 0

\* both escrows of a swap stand locked on their chains
InitEscrow ==
    /\ swaps = <<>>
    /\ prog = "escrow"
    /\ pc = "e_run"
    /\ variant = "part_001"
    /\ config = NullRecord
    /\ srcEscrowEvent = NullRecord
    /\ arg = NullRecord
    /\ srcEscrow = LockedEscrow(keccak256(secret), 0, 10)
    /\ dstEscrow = LockedEscrow(keccak256(secret), 0, 10)
    /\ now = 0

\* retryAttempts of the coordinator the two interleaved calls share
PairAttempts == 2

\* what one call is given and what the chain will answer it: whether the
\* commitments of its event match, how many of its creations fail before one
\* succeeds, and how its withdrawal ends
SwapInputs ==
    [matches : BOOLEAN, failures : 0 .. PairAttempts,
     withdraw : {"ok", "failed", "noaddr"}]

\* a call of processCrossChainEvents that has not started
NewSwap(in) ==
    [input |-> in, pos |-> "start", attempt |-> 0, lastError |-> Null,
     calls |-> 0, txs |-> <<>>, result |-> "none"]

\* two calls on one coordinator
InitPair ==
    /\ prog = "pair"
    /\ pc = "p_run"
    /\ variant = "part_001"
    /\ config = [retryAttempts |-> PairAttempts, retryDelay |-> retryDelay]
    /\ srcEscrowEvent = NullRecord
    /\ arg = NullRecord
    /\ srcEscrow = NoEscrow
    /\ dstEscrow = NoEscrow
    /\ now = 0
    /\ swaps \in [1 .. 2 -> {NewSwap(in) : in \in SwapInputs}]

Init ==
    InitCommon /\ (InitCoord \/ InitMain \/ InitTest \/ InitUnit \/ InitEscrow
                     \/ InitPair)

----------------------------------------------------------------------------
(* CrossChainCoordinator.processCrossChainEvents and                       *)
(* AptosIntegration.completeCrossChainSwap                                 *)

\* the CrossChainEventData built from the source event's complement
BuildEventData(complement, s) ==
    [receiverSha1 |->
        toLowerCase(<<"0", "x">> \o padStart(AddressToString(complement.maker), PadWidth)),
     takerAssetSha1 |->
        toLowerCase(<<"0", "x">> \o padStart(AddressToString(complement.token), PadWidth)),
     amount |-> complement.amount,
     secret |-> s,
     originalReceiverAddress |-> AptosReceiverAddress,
     originalTakerAssetAddress |-> AptosTakerAssetAddress]

processCrossChainEvents_build ==
    /\ pc = "c_build"
    /\ eventData' = BuildEventData(srcEscrowEvent, secret)
    /\ attempt' = 0
    /\ lastError' = Null
    /\ pc' = "c_loop"
    /\ UNCHANGED <<fixed, mainVars, now, txs, srcEscrow, dstEscrow, dstCreated,
                   result, thrown, createRes, calls, waits, i>>

\* the retry loop with an off-by-one bound: attempt <= retryAttempts
retryLoop_call_offByOne ==
    /\ pc = "c_loop"
    /\ attempt <= config.retryAttempts
    /\ result = NullRecord
    /\ calls' = calls + 1
    /\ pc' = "c_create"
    /\ UNCHANGED <<fixed, mainVars, now, txs, srcEscrow, dstEscrow, dstCreated,
                   eventData, attempt, lastError, result, thrown, createRes, waits, i>>

\* while (attempt < retryAttempts) { try { result = await completeCrossChainSwap(...)
retryLoop_call ==
    /\ pc = "c_loop"
    /\ attempt < config.retryAttempts
    /\ calls' = calls + 1
    /\ pc' = "c_create"
    /\ UNCHANGED <<fixed, mainVars, now, txs, srcEscrow, dstEscrow, dstCreated,
                   eventData, attempt, lastError, result, thrown, createRes, waits, i>>

\* if (!result) throw new Error(`... after ${retryAttempts} attempts. Last error: ...`)
retryLoop_exhausted ==
    /\ pc = "c_loop"
    /\ ~(attempt < config.retryAttempts)
    /\ thrown' = [attempts |-> config.retryAttempts, lastError |-> lastError]
    /\ pc' = "c_failed"
    /\ UNCHANGED <<fixed, mainVars, now, txs, srcEscrow, dstEscrow, dstCreated,
                   eventData, attempt, lastError, result, createRes, calls, waits, i>>

\* the catch block of the retry loop, entered at time t with error err
Catch(err, t) ==
    /\ lastError' = err
    /\ attempt' = attempt + 1
    /\ IF attempt + 1 < config.retryAttempts
       THEN /\ now' = t + config.retryDelay
            /\ waits' = Append(waits, <<"retry", config.retryDelay>>)
       ELSE /\ now' = t
            /\ waits' = waits
    /\ pc' = "c_loop"

\* the hash argument of escrow::new_from_resolver_entry
HashArray(s) == IF variant = "part_001" THEN keccak256(s) ELSE s

\* createDestinationEscrow throws before anything is submitted
createDestinationEscrow_mismatch ==
    /\ pc = "c_create"
    /\ ~verifySha1Hashes(eventData)
    /\ Catch("SHA1 hash verification failed", now)
    /\ UNCHANGED <<fixed, mainVars, txs, srcEscrow, dstEscrow, dstCreated,
                   eventData, result, thrown, createRes, calls, i>>

\* createDestinationEscrow without the verification
createDestinationEscrow_submit_unverified ==
    /\ pc = "c_create"
    /\ \E t \in After(0), outcome \in {"ok", "rejected", "lost"},
          addr \in {"escrow", Null} :
        LET tx == Tx("aptos", "escrow::new_from_resolver_entry", "dst",
                     [NoArgs EXCEPT !.hash = HashArray(eventData.secret),
                                    !.amount = eventData.amount],
                     t, outcome # "rejected")
        IN  /\ txs' = Append(txs, tx)
            /\ IF outcome = "rejected"
               THEN UNCHANGED <<dstEscrow, dstCreated>>
               ELSE /\ dstEscrow' = LockedEscrow(HashArray(eventData.secret), t,
                                                 eventData.amount)
                    /\ dstCreated' = dstCreated + 1
            /\ IF outcome = "ok"
               THEN /\ createRes' = [txHash |-> "create_tx", escrowAddress |-> addr]
                    /\ now' = t
                    /\ pc' = "c_wait"
                    /\ UNCHANGED <<attempt, lastError, waits>>
               ELSE /\ addr = Null
                    /\ Catch("submit failed", t)
                    /\ UNCHANGED createRes
    /\ UNCHANGED <<fixed, mainVars, srcEscrow, eventData, result, thrown, calls, i>>

\* createDestinationEscrow, verification passed: submit
\* escrow::new_from_resolver_entry, then getEscrowObjectAddress
createDestinationEscrow_submit ==
    /\ pc = "c_create"
    /\ verifySha1Hashes(eventData)
    /\ createDestinationEscrow_submit_unverified

\* the two timed waits of completeCrossChainSwap between creation and withdrawal
SwapWaits == IF variant = "part_001" THEN <<5, 15>> ELSE <<5>>

RECURSIVE SumSeq(_)
SumSeq(q) == IF q = <<>> THEN 0 ELSE Head(q) + SumSeq(Tail(q))

completeCrossChainSwap_wait ==
    /\ pc = "c_wait"
    /\ now' = now + SumSeq(SwapWaits)
    /\ waits' = waits \o [k \in 1 .. Len(SwapWaits) |-> <<"swap", SwapWaits[k]>>]
    /\ pc' = "c_withdraw"
    /\ UNCHANGED <<fixed, mainVars, coordVars, txs, srcEscrow, dstEscrow, dstCreated, i>>

\* completeCrossChainSwap that lets a failed withdrawal escape
completeCrossChainSwap_withdraw_rethrow ==
    /\ pc = "c_withdraw"
    /\ createRes.escrowAddress # Null
    /\ \E t \in After(0), outcome \in {"ok", "rejected", "lost"} :
        LET accepted == CanWithdraw(dstEscrow, eventData.secret, t,
                                    dstWithdrawal, dstCancellation)
            tx == Tx("aptos", "escrow::withdraw", "dst",
                     [NoArgs EXCEPT !.secret = eventData.secret,
                                    !.escrowAt = dstEscrow.deployedAt],
                     t, outcome # "rejected")
        IN  /\ (outcome # "rejected") => accepted
            /\ txs' = Append(txs, tx)
            /\ dstEscrow' = IF outcome = "rejected" THEN dstEscrow
                            ELSE [dstEscrow EXCEPT !.status = "withdrawn"]
            /\ IF outcome = "ok"
               THEN /\ result' = [createTxHash |-> createRes.txHash,
                                  withdrawTxHash |-> "withdraw_tx",
                                  escrowAddress |-> createRes.escrowAddress]
                    /\ now' = t
                    /\ pc' = "c_done"
                    /\ UNCHANGED <<attempt, lastError, waits>>
               ELSE /\ Catch("withdraw failed", t)
                    /\ UNCHANGED result
    /\ UNCHANGED <<fixed, mainVars, srcEscrow, dstCreated, eventData, thrown,
                   createRes, calls, i>>

\* completeCrossChainSwap that withdraws whether or not it has the address
completeCrossChainSwap_withdraw_unguarded ==
    /\ pc = "c_withdraw"
    /\ \E t \in After(0), outcome \in {"ok", "rejected", "lost"} :
        LET accepted == CanWithdraw(dstEscrow, eventData.secret, t,
                                    dstWithdrawal, dstCancellation)
            tx == Tx("aptos", "escrow::withdraw", "dst",
                     [NoArgs EXCEPT !.secret = eventData.secret,
                                    !.escrowAt = dstEscrow.deployedAt],
                     t, outcome # "rejected")
        IN  /\ (outcome # "rejected") => accepted
            /\ txs' = Append(txs, tx)
            /\ dstEscrow' = IF outcome = "rejected" THEN dstEscrow
                            ELSE [dstEscrow EXCEPT !.status = "withdrawn"]
            /\ result' = [createTxHash |-> createRes.txHash,
                          withdrawTxHash |-> IF outcome = "ok" THEN "withdraw_tx" ELSE Null,
                          escrowAddress |-> createRes.escrowAddress]
            /\ now' = t
    /\ pc' = "c_done"
    /\ UNCHANGED <<fixed, mainVars, srcEscrow, dstCreated, eventData, attempt,
                   lastError, thrown, createRes, calls, waits, i>>

\* completeCrossChainSwap that cancels the escrow when the withdrawal fails
completeCrossChainSwap_withdraw_cancel ==
    /\ pc = "c_withdraw"
    /\ createRes.escrowAddress # Null
    /\ \E t \in After(0), outcome \in {"ok", "rejected", "lost"} :
        LET accepted == CanWithdraw(dstEscrow, eventData.secret, t,
                                    dstWithdrawal, dstCancellation)
            tx == Tx("aptos", "escrow::withdraw", "dst",
                     [NoArgs EXCEPT !.secret = eventData.secret,
                                    !.escrowAt = dstEscrow.deployedAt],
                     t, outcome # "rejected")
            cancel == Tx("aptos", "escrow::cancel", "dst",
                         [NoArgs EXCEPT !.escrowAt = dstEscrow.deployedAt],
                         t, CanCancel(dstEscrow, t, dstCancellation))
        IN  /\ (outcome # "rejected") => accepted
            /\ txs' = IF outcome = "ok" THEN Append(txs, tx)
                      ELSE Append(Append(txs, tx), cancel)
            /\ dstEscrow' = IF outcome # "rejected"
                            THEN [dstEscrow EXCEPT !.status = "withdrawn"]
                            ELSE IF cancel.committed
                            THEN [dstEscrow EXCEPT !.status = "cancelled"]
                            ELSE dstEscrow
            /\ result' = [createTxHash |-> createRes.txHash,
                          withdrawTxHash |-> IF outcome = "ok" THEN "withdraw_tx" ELSE Null,
                          escrowAddress |-> createRes.escrowAddress]
            /\ now' = t
    /\ pc' = "c_done"
    /\ UNCHANGED <<fixed, mainVars, srcEscrow, dstCreated, eventData, attempt,
                   lastError, thrown, createRes, calls, waits, i>>

\* step 4 of completeCrossChainSwap, then the return into processCrossChainEvents
completeCrossChainSwap_withdraw ==
    /\ pc = "c_withdraw"
    /\ createRes.escrowAddress # Null
    /\ \E t \in After(0), outcome \in {"ok", "rejected", "lost"} :
        LET accepted == CanWithdraw(dstEscrow, eventData.secret, t,
                                    dstWithdrawal, dstCancellation)
            tx == Tx("aptos", "escrow::withdraw", "dst",
                     [NoArgs EXCEPT !.secret = eventData.secret,
                                    !.escrowAt = dstEscrow.deployedAt],
                     t, outcome # "rejected")
        IN  /\ (outcome # "rejected") => accepted
            /\ txs' = Append(txs, tx)
            /\ dstEscrow' = IF outcome = "rejected" THEN dstEscrow
                            ELSE [dstEscrow EXCEPT !.status = "withdrawn"]
            /\ result' = [createTxHash |-> createRes.txHash,
                          withdrawTxHash |-> IF outcome = "ok" THEN "withdraw_tx" ELSE Null,
                          escrowAddress |-> createRes.escrowAddress]
            /\ now' = t
    /\ pc' = "c_done"
    /\ UNCHANGED <<fixed, mainVars, srcEscrow, dstCreated, eventData, attempt,
                   lastError, thrown, createRes, calls, waits, i>>

\* no escrow address: the withdrawal is skipped
completeCrossChainSwap_skip ==
    /\ pc = "c_withdraw"
    /\ createRes.escrowAddress = Null
    /\ result' = [createTxHash |-> createRes.txHash, withdrawTxHash |-> Null,
                  escrowAddress |-> Null]
    /\ pc' = "c_done"
    /\ UNCHANGED <<fixed, mainVars, now, txs, srcEscrow, dstEscrow, dstCreated,
                   eventData, attempt, lastError, thrown, createRes, calls, waits, i>>

----------------------------------------------------------------------------
(* main() of tests/create-order.ts *)

\* order parameters of createFusionOrder
initialDestinationAmount == 10000
minDestinationAmount == 9000
decayPerSecond == 100
sourceAmount == 1000000

\* every throw inside main() ends in its catch block: process.exit(1)
outcomes == {"ok", "rejected", "lost"}

\* createFusionOrder with the minimum taken above the initial amount
createFusionOrder_minAbove ==
    /\ pc = "m_start"
    /\ \E t \in After(0), outcome \in outcomes :
        /\ txs' = Append(txs, Tx("aptos", "fusion_order::new_entry", "src",
                                 [NoArgs EXCEPT !.hash = keccak256(secret)],
                                 t, outcome # "rejected"))
        /\ order' = IF outcome = "rejected" THEN order
                    ELSE [hash |-> keccak256(secret),
                          destinationAsset |-> DestinationAssetHex,
                          initialPrice |-> initialDestinationAmount,
                          minPrice |-> initialDestinationAmount + minDestinationAmount,
                          decayPerSecond |-> decayPerSecond,
                          auctionStartTime |-> t,
                          currentPrice |-> -1]
        /\ pc' = IF outcome = "ok" THEN "m_created" ELSE "m_exit"
        /\ now' = t
    /\ UNCHANGED <<fixed, coordVars, srcEscrow, dstEscrow, dstCreated, acceptTxHash,
                   escrowEventData, evmResult, waits, i>>

\* createFusionOrder: fusion_order::new_entry carries keccak256(secret)
createFusionOrder ==
    /\ pc = "m_start"
    /\ \E t \in After(0), outcome \in outcomes :
        /\ txs' = Append(txs, Tx("aptos", "fusion_order::new_entry", "src",
                                 [NoArgs EXCEPT !.hash = keccak256(secret)],
                                 t, outcome # "rejected"))
        /\ order' = IF outcome = "rejected" THEN order
                    ELSE [hash |-> keccak256(secret),
                          destinationAsset |-> DestinationAssetHex,
                          initialPrice |-> initialDestinationAmount,
                          minPrice |-> minDestinationAmount,
                          decayPerSecond |-> decayPerSecond,
                          auctionStartTime |-> t,
                          currentPrice |-> -1]
        /\ pc' = IF outcome = "ok" THEN "m_created" ELSE "m_exit"
        /\ now' = t
    /\ UNCHANGED <<fixed, coordVars, srcEscrow, dstEscrow, dstCreated, acceptTxHash,
                   escrowEventData, evmResult, waits, i>>

\* acceptFusionOrder letting the error of a failed submission escape
acceptFusionOrder_rethrow ==
    /\ pc = "m_created"
    /\ waits' = Append(waits, <<"main", 5>>)
    /\ \E t \in After(5), found \in BOOLEAN, outcome \in outcomes :
        /\ now' = t
        /\ IF ~found
           THEN /\ outcome = "rejected"
                /\ pc' = "m_returned"
                /\ UNCHANGED <<txs, order, srcEscrow, acceptTxHash>>
           ELSE /\ txs' = Append(txs, Tx("aptos", "escrow::new_from_order_entry", "src",
                                         NoArgs, t, outcome # "rejected"))
                /\ IF outcome = "rejected"
                   THEN UNCHANGED <<order, srcEscrow>>
                   ELSE /\ srcEscrow' = LockedEscrow(order.hash, t, sourceAmount)
                        /\ order' = [order EXCEPT !.currentPrice =
                               currentAmount(order.initialPrice, order.minPrice,
                                             order.decayPerSecond,
                                             t - order.auctionStartTime)]
                /\ acceptTxHash' = IF outcome = "ok" THEN "accept_tx" ELSE Null
                /\ pc' = IF outcome = "ok" THEN "m_accepted" ELSE "m_exit"
    /\ UNCHANGED <<fixed, coordVars, dstEscrow, dstCreated, escrowEventData,
                   evmResult, i>>

\* the 5 s wait, then acceptFusionOrder; a null result makes main return
acceptFusionOrder ==
    /\ pc = "m_created"
    /\ waits' = Append(waits, <<"main", 5>>)
    /\ \E t \in After(5), found \in BOOLEAN, outcome \in outcomes :
        /\ now' = t
        /\ IF ~found
           THEN /\ outcome = "rejected"
                /\ pc' = "m_returned"
                /\ UNCHANGED <<txs, order, srcEscrow, acceptTxHash>>
           ELSE /\ txs' = Append(txs, Tx("aptos", "escrow::new_from_order_entry", "src",
                                         NoArgs, t, outcome # "rejected"))
                /\ IF outcome = "rejected"
                   THEN UNCHANGED <<order, srcEscrow>>
                   ELSE /\ srcEscrow' = LockedEscrow(order.hash, t, sourceAmount)
                        /\ order' = [order EXCEPT !.currentPrice =
                               currentAmount(order.initialPrice, order.minPrice,
                                             order.decayPerSecond,
                                             t - order.auctionStartTime)]
                /\ acceptTxHash' = IF outcome = "ok" THEN "accept_tx" ELSE Null
                /\ pc' = IF outcome = "ok" THEN "m_accepted" ELSE "m_returned"
    /\ UNCHANGED <<fixed, coordVars, dstEscrow, dstCreated, escrowEventData,
                   evmResult, i>>

\* the 5 s wait, then getEscrowEventData: the combined event data, or null
getEscrowEventData ==
    /\ pc = "m_accepted"
    /\ waits' = Append(waits, <<"main", 5>>)
    /\ \E t \in After(5), resp \in Responses :
        /\ now' = t
        /\ escrowEventData' = EventDataOf(resp, order)
        /\ pc' = IF EventDataOf(resp, order) # NullRecord THEN "m_event"
                 ELSE "m_returned"
    /\ UNCHANGED <<fixed, coordVars, txs, srcEscrow, dstEscrow, dstCreated, order,
                   acceptTxHash, evmResult, i>>

\* funding only the minimum price of the auction
fundedAmount_min == minDestinationAmount

\* the amount deployDst transfers to the resolver and approves: '10000'
fundedAmount == 10000

\* deployDst called although getEscrowEventData returned null
deployDst_transfer_unguarded ==
    /\ pc \in {"m_event", "m_returned"}
    /\ acceptTxHash # Null
    /\ \E t \in After(0), outcome \in outcomes :
        /\ txs' = Append(txs, Tx("optimism", "transfer", "dst",
                                 [NoArgs EXCEPT !.amount = fundedAmount],
                                 t, outcome # "rejected"))
        /\ pc' = IF outcome = "ok" THEN "m_transferred" ELSE "m_exit"
        /\ now' = t
    /\ UNCHANGED <<fixed, mainVars, coordVars, srcEscrow, dstEscrow, dstCreated,
                   waits, i>>

\* deployDst: the token transfer to the resolver
deployDst_transfer ==
    /\ pc = "m_event"
    /\ deployDst_transfer_unguarded

\* deployDst going on to the deployment after an approval that threw
deployDst_approve_swallow ==
    /\ pc = "m_transferred"
    /\ \E t \in After(0), outcome \in outcomes :
        /\ txs' = Append(txs, Tx("optimism", "arbitraryCalls", "dst",
                                 [NoArgs EXCEPT !.amount = fundedAmount],
                                 t, outcome # "rejected"))
        /\ pc' = "m_approved"
        /\ now' = t
    /\ UNCHANGED <<fixed, mainVars, coordVars, srcEscrow, dstEscrow, dstCreated,
                   waits, i>>

\* deployDst: the approval through arbitraryCalls
deployDst_approve ==
    /\ pc = "m_transferred"
    /\ \E t \in After(0), outcome \in outcomes :
        /\ txs' = Append(txs, Tx("optimism", "arbitraryCalls", "dst",
                                 [NoArgs EXCEPT !.amount = fundedAmount],
                                 t, outcome # "rejected"))
        /\ pc' = IF outcome = "ok" THEN "m_approved" ELSE "m_exit"
        /\ now' = t
    /\ UNCHANGED <<fixed, mainVars, coordVars, srcEscrow, dstEscrow, dstCreated,
                   waits, i>>

\* Immutables with the hard-coded amount of the token transfer
Immutables_transferAmount(ed) ==
    [orderHash |-> ed.fusionOrder.hash,
     hashlock |-> ed.fusionOrder.hash,
     amount |-> initialDestinationAmount,
     timelocks |-> createManualTimelocks(ed.fusionOrder.auctionStartTime)]

\* the Immutables deployDst builds from the event data
Immutables(ed) ==
    [orderHash |-> ed.fusionOrder.hash,
     hashlock |-> ed.fusionOrder.hash,
     amount |-> ed.fusionOrder.currentPrice,
     timelocks |-> createManualTimelocks(ed.fusionOrder.auctionStartTime)]

\* deployDst: the deployment itself, the search for DstEscrowCreated in the
\* receipt, and the mock result when the submission throws
deployDst_deploy ==
    /\ pc = "m_approved"
    /\ \E t \in After(0), outcome \in outcomes, addr \in {"evm_escrow", Null} :
        LET immutables == Immutables(escrowEventData)
        IN  /\ txs' = Append(txs, Tx("optimism", "deployDst", "dst",
                                     [NoArgs EXCEPT !.hash = immutables.hashlock,
                                                    !.amount = immutables.amount,
                                                    !.base = immutables.timelocks[0],
                                                    !.value = nativeAmount(
                                                        escrowEventData.fusionOrder.destinationAsset,
                                                        escrowEventData.fusionOrder.currentPrice)],
                                     t, outcome # "rejected"))
            /\ IF outcome = "rejected"
               THEN UNCHANGED <<dstEscrow, dstCreated>>
               ELSE /\ dstEscrow' = LockedEscrow(immutables.hashlock, t, immutables.amount)
                    /\ dstCreated' = dstCreated + 1
            /\ IF outcome = "ok"
               THEN evmResult' = [txHash |-> "deploy_tx", escrowAddress |-> addr,
                                  immutables |-> immutables]
               ELSE /\ addr = Null
                    /\ evmResult' = [txHash |-> "mock_tx_hash",
                                     escrowAddress |-> "factory",
                                     immutables |-> immutables]
            /\ now' = t
    /\ pc' = "m_deployed"
    /\ UNCHANGED <<fixed, coordVars, srcEscrow, order, acceptTxHash,
                   escrowEventData, waits, i>>

\* step 5 of main: withdrawOnAptos, whose errors are caught and reported
withdrawOnAptos ==
    /\ pc = "m_deployed"
    /\ escrowEventData.escrow.address # Null
    /\ \E t \in After(0), outcome \in outcomes :
        /\ (outcome # "rejected") =>
               CanWithdraw(srcEscrow, secret, t, srcWithdrawal, srcCancellation)
        /\ txs' = Append(txs, Tx("aptos", "escrow::withdraw", "src",
                                 [NoArgs EXCEPT !.secret = secret,
                                                !.escrowAt = srcEscrow.deployedAt],
                                 t, outcome # "rejected"))
        /\ srcEscrow' = IF outcome = "rejected" THEN srcEscrow
                        ELSE [srcEscrow EXCEPT !.status = "withdrawn"]
        /\ now' = t
    /\ pc' = "m_aptosDone"
    /\ UNCHANGED <<fixed, mainVars, coordVars, dstEscrow, dstCreated, waits, i>>

withdrawOnAptos_skip ==
    /\ pc = "m_deployed"
    /\ escrowEventData.escrow.address = Null
    /\ pc' = "m_aptosDone"
    /\ UNCHANGED <<fixed, mainVars, coordVars, now, txs, srcEscrow, dstEscrow,
                   dstCreated, waits, i>>

\* the condition without the comparison with the factory address
HasOptimismEscrow_anyAddress == evmResult.escrowAddress # Null

\* the condition under which main calls withdrawOnOptimism
HasOptimismEscrow ==
    /\ evmResult.escrowAddress # Null
    /\ evmResult.escrowAddress # "factory"

\* step 6 of main: withdrawOnOptimism waits 20 s and calls publicWithdraw
withdrawOnOptimism ==
    /\ pc = "m_aptosDone"
    /\ HasOptimismEscrow
    /\ waits' = Append(waits, <<"optimism", 20>>)
    /\ \E t \in After(20), outcome \in outcomes :
        /\ (outcome # "rejected") =>
               CanWithdraw(dstEscrow, secret, t, dstPublicWithdrawal, dstCancellation)
        /\ txs' = Append(txs, Tx("optimism", "publicWithdraw", "dst",
                                 [NoArgs EXCEPT !.secret = secret,
                                                !.escrowAt = dstEscrow.deployedAt],
                                 t, outcome # "rejected"))
        /\ dstEscrow' = IF outcome = "rejected" THEN dstEscrow
                        ELSE [dstEscrow EXCEPT !.status = "withdrawn"]
        /\ now' = t
    /\ pc' = "m_done"
    /\ UNCHANGED <<fixed, mainVars, coordVars, srcEscrow, dstCreated, i>>

withdrawOnOptimism_skip ==
    /\ pc = "m_aptosDone"
    /\ ~HasOptimismEscrow
    /\ pc' = "m_done"
    /\ UNCHANGED <<fixed, mainVars, coordVars, now, txs, srcEscrow, dstEscrow,
                   dstCreated, waits, i>>

NextMain ==
    \/ createFusionOrder
    \/ acceptFusionOrder
    \/ getEscrowEventData
    \/ deployDst_transfer
    \/ deployDst_approve
    \/ deployDst_deploy
    \/ withdrawOnAptos
    \/ withdrawOnAptos_skip
    \/ withdrawOnOptimism
    \/ withdrawOnOptimism_skip

----------------------------------------------------------------------------
(* The test of tests/main.spec.ts with EscrowFactory.getSrcDeployEvent *)

\* number of attempts of getSrcDeployEvent
MaxLogAttempts == 5

\* increaseTime(11) before the source withdrawal
testFinalityWait == 11

\* Sdk.TimeLocks.new({...}) of the order the test builds, in lane order 1..7
TestTimeLocks == <<10, 120, 121, 122, 10, 100, 101>>

\* the test builds its order, the resolver fills it: deploySrc creates the
\* source escrow, and the
\* factory emits SrcEscrowCreated(immutables, complement)
test_deploySrc ==
    /\ pc = "t_start"
    /\ \E t \in After(0), outcome \in outcomes, amount \in EventAmounts,
          maker \in Digests, token \in Digests :
        /\ txs' = Append(txs, Tx("optimism", "deploySrc", "src",
                                 [NoArgs EXCEPT !.hash = keccak256(secret)],
                                 t, outcome # "rejected"))
        /\ IF outcome = "rejected"
           THEN /\ maker = sha1hex(AptosReceiverAddress)
                /\ token = sha1hex(AptosTakerAssetAddress)
                /\ UNCHANGED <<srcEscrow, srcLog>>
           ELSE /\ srcEscrow' = LockedEscrow(keccak256(secret), t, amount)
                /\ srcLog' = [hashLock |-> keccak256(secret),
                              maker |-> HexValue(maker), token |-> HexValue(token),
                              amount |-> amount, block |-> t]
        /\ pc' = IF outcome = "ok" THEN "t_getEvent" ELSE "t_failed"
        /\ now' = t
    /\ order' = [hashLock |-> keccak256(secret), timeLocks |-> TestTimeLocks]
    /\ i' = 0
    /\ UNCHANGED <<prog, variant, secret, config, srcEscrowEvent, arg, ret, swaps,
                   queries, acceptTxHash, escrowEventData, evmResult, coordVars, dstEscrow,
                   dstCreated, waits>>

\* iface.decodeEventLog and the [Immutables, DstImmutablesComplement] pair built
\* from the first log found
decodeEventLog(log) ==
    [hashLock |-> log.hashLock, maker |-> fromBigInt(log.maker),
     token |-> fromBigInt(log.token), amount |-> log.amount]

\* what a query of the provider may give
QueryOutcomes == {"logs", "empty", "throws"}

\* the getLogs queries of one attempt: by block hash first and, when that
\* finds no logs and getBlock knows the block, by the block's number
AttemptQueries(byHash, block, byNumber) ==
    IF byHash = "empty" /\ block = "known"
    THEN << [by |-> "blockHash", outcome |-> byHash],
            [by |-> "blockNumber", outcome |-> byNumber] >>
    ELSE << [by |-> "blockHash", outcome |-> byHash] >>

\* logs.length > 0 after the queries of an attempt
FoundLogs(qs) == qs[Len(qs)].outcome = "logs"

\* the waits starting at one second
LogDelay_fromOne(k) == k + 1

\* const delay = (i + 2) * 1000, in seconds
LogDelay(k) == k + 2

\* one turn of the loop of getSrcDeployEvent: the logs are found and returned,
\* or none are found or a query throws, and the loop waits (i + 2) s if i < 4
getSrcDeployEvent_attempt ==
    /\ pc = "t_getEvent"
    /\ i < MaxLogAttempts
    /\ \E t \in After(0), byHash \in QueryOutcomes,
          block \in {"known", "null", "throws"}, byNumber \in QueryOutcomes :
        /\ queries' = AttemptQueries(byHash, block, byNumber)
        /\ IF FoundLogs(AttemptQueries(byHash, block, byNumber))
           THEN /\ srcEscrowEvent' = decodeEventLog(srcLog)
                /\ now' = t
                /\ pc' = "t_wait"
                /\ UNCHANGED <<i, waits>>
           ELSE /\ i' = i + 1
                /\ IF i < MaxLogAttempts - 1
                   THEN /\ now' = t + LogDelay(i)
                        /\ waits' = Append(waits, <<"logs", LogDelay(i)>>)
                   ELSE /\ now' = t
                        /\ waits' = waits
                /\ UNCHANGED <<srcEscrowEvent, pc>>
    /\ UNCHANGED <<prog, variant, secret, config, srcLog, arg, ret, swaps, mainVars,
                   coordVars, txs, srcEscrow, dstEscrow, dstCreated>>

\* getSrcDeployEvent giving up one poll early
getSrcDeployEvent_exhausted_early ==
    /\ pc = "t_getEvent"
    /\ ~(i < MaxLogAttempts - 1)
    /\ pc' = "t_noLogs"
    /\ UNCHANGED <<fixed, mainVars, coordVars, now, txs, srcEscrow, dstEscrow,
                   dstCreated, waits, i>>

\* throw new Error(`Failed to get SrcEscrowCreated event logs after 5 attempts ...`)
getSrcDeployEvent_exhausted ==
    /\ pc = "t_getEvent"
    /\ ~(i < MaxLogAttempts)
    /\ pc' = "t_noLogs"
    /\ UNCHANGED <<fixed, mainVars, coordVars, now, txs, srcEscrow, dstEscrow,
                   dstCreated, waits, i>>

\* increaseTime(11), then the resolver withdraws from the source escrow
test_withdraw ==
    /\ pc = "t_wait"
    /\ waits' = Append(waits, <<"test", testFinalityWait>>)
    /\ \E t \in After(testFinalityWait), outcome \in outcomes :
        /\ (outcome # "rejected") =>
               CanWithdraw(srcEscrow, secret, t, srcWithdrawal, srcCancellation)
        /\ txs' = Append(txs, Tx("optimism", "withdraw", "src",
                                 [NoArgs EXCEPT !.secret = secret,
                                                !.escrowAt = srcEscrow.deployedAt],
                                 t, outcome # "rejected"))
        /\ srcEscrow' = IF outcome = "rejected" THEN srcEscrow
                        ELSE [srcEscrow EXCEPT !.status = "withdrawn"]
        /\ pc' = IF outcome = "ok" THEN "t_done" ELSE "t_failed"
        /\ now' = t
    /\ UNCHANGED <<fixed, mainVars, coordVars, dstEscrow, dstCreated, i>>

NextTest ==
    \/ test_deploySrc
    \/ getSrcDeployEvent_attempt
    \/ getSrcDeployEvent_exhausted
    \/ test_withdraw

----------------------------------------------------------------------------
(* Single calls *)

unitVars == <<prog, variant, secret, config, srcEscrowEvent, srcLog, queries, arg, swaps,
              mainVars, coordVars, now, txs, srcEscrow, dstEscrow, dstCreated,
              waits, i>>

\* AptosIntegration.verifySha1Hashes(eventData)
call_verifySha1Hashes ==
    /\ pc = "u_call"
    /\ arg.fn = "verifySha1Hashes"
    /\ ret' = [value |-> verifySha1Hashes(arg.ed)]
    /\ pc' = "u_done"
    /\ UNCHANGED unitVars

\* createManualTimelocks(deployedAt): no path of it throws on an integer
call_createManualTimelocks ==
    /\ pc = "u_call"
    /\ arg.fn = "createManualTimelocks"
    /\ ret' = [threw |-> FALSE, value |-> createManualTimelocks(arg.deployedAt)]
    /\ pc' = "u_done"
    /\ UNCHANGED unitVars

\* the price of an order read elapsed seconds after the start of its auction
call_currentAmount ==
    /\ pc = "u_call"
    /\ arg.fn = "currentAmount"
    /\ ret' = [value |-> currentAmount(arg.initial, arg.min, arg.decay, arg.t)]
    /\ pc' = "u_done"
    /\ UNCHANGED unitVars

\* the events of an acceptance at the minimum price, as the chain emits them
SampleAcceptance ==
    [hash |-> keccak256(secret), destinationAsset |-> DestinationAssetHex,
     currentPrice |-> minDestinationAmount, auctionStartTime |-> 0]

\* getEscrowEventData(acceptTxHash): every throw is caught and null returned
call_getEscrowEventData ==
    /\ pc = "u_call"
    /\ arg.fn = "getEscrowEventData"
    /\ ret' = [threw |-> FALSE, value |-> EventDataOf(arg.resp, SampleAcceptance)]
    /\ pc' = "u_done"
    /\ UNCHANGED unitVars

\* deployDst(resolverAddress, escrowEventData, escrowFactoryAddress): the
\* value of the deployment transaction
call_deployDst ==
    /\ pc = "u_call"
    /\ arg.fn = "deployDst"
    /\ ret' = [threw |-> FALSE, value |-> nativeAmount(arg.token, arg.currentPrice)]
    /\ pc' = "u_done"
    /\ UNCHANGED unitVars

\* coordinator.validateSecret(secret)
call_validateSecret ==
    /\ pc = "u_call"
    /\ arg.fn = "validateSecret"
    /\ ret' = [threw |-> FALSE, value |-> validateSecret(arg.secret)]
    /\ pc' = "u_done"
    /\ UNCHANGED unitVars

callVars == <<prog, variant, secret, config, srcEscrowEvent, srcLog, arg, swaps,
              mainVars, coordVars, dstCreated, i, queries>>

\* withdrawFromDestinationEscrow(escrowAddress, secret): submits
\* escrow::withdraw and rethrows what the submission throws
call_withdrawFromDestinationEscrow ==
    /\ pc = "u_call"
    /\ arg.fn = "withdrawFromDestinationEscrow"
    /\ \E t \in After(0), outcome \in outcomes :
        /\ (outcome # "rejected") =>
               CanWithdraw(dstEscrow, arg.secret, t, dstWithdrawal, dstCancellation)
        /\ txs' = Append(txs, Tx("aptos", "escrow::withdraw", "dst",
                                 [NoArgs EXCEPT !.secret = arg.secret,
                                                !.escrowAt = dstEscrow.deployedAt],
                                 t, outcome # "rejected"))
        /\ dstEscrow' = IF outcome = "rejected" THEN dstEscrow
                        ELSE [dstEscrow EXCEPT !.status = "withdrawn"]
        /\ ret' = [failed |-> outcome # "ok", threw |-> outcome # "ok"]
        /\ now' = t
    /\ pc' = "u_done"
    /\ UNCHANGED <<callVars, srcEscrow, waits>>

\* withdrawOnAptos reporting success whatever the submission did
call_withdrawOnAptos_swallow ==
    /\ pc = "u_call"
    /\ arg.fn = "withdrawOnAptos"
    /\ \E t \in After(0), outcome \in outcomes :
        /\ (outcome # "rejected") =>
               CanWithdraw(srcEscrow, arg.secret, t, srcWithdrawal, srcCancellation)
        /\ txs' = Append(txs, Tx("aptos", "escrow::withdraw", "src",
                                 [NoArgs EXCEPT !.secret = arg.secret,
                                                !.escrowAt = srcEscrow.deployedAt],
                                 t, outcome # "rejected"))
        /\ srcEscrow' = IF outcome = "rejected" THEN srcEscrow
                        ELSE [srcEscrow EXCEPT !.status = "withdrawn"]
        /\ ret' = [failed |-> FALSE, threw |-> FALSE]
        /\ now' = t
    /\ pc' = "u_done"
    /\ UNCHANGED <<callVars, dstEscrow, waits>>

\* withdrawOnAptos(secret, escrowAddress): submits escrow::withdraw; an error is
\* caught and returned as {success: false}
call_withdrawOnAptos ==
    /\ pc = "u_call"
    /\ arg.fn = "withdrawOnAptos"
    /\ \E t \in After(0), outcome \in outcomes :
        /\ (outcome # "rejected") =>
               CanWithdraw(srcEscrow, arg.secret, t, srcWithdrawal, srcCancellation)
        /\ txs' = Append(txs, Tx("aptos", "escrow::withdraw", "src",
                                 [NoArgs EXCEPT !.secret = arg.secret,
                                                !.escrowAt = srcEscrow.deployedAt],
                                 t, outcome # "rejected"))
        /\ srcEscrow' = IF outcome = "rejected" THEN srcEscrow
                        ELSE [srcEscrow EXCEPT !.status = "withdrawn"]
        /\ ret' = [failed |-> outcome # "ok", threw |-> FALSE]
        /\ now' = t
    /\ pc' = "u_done"
    /\ UNCHANGED <<callVars, dstEscrow, waits>>

\* withdrawOnOptimism(resolver, secret, escrowAddress, immutables): waits 20 s,
\* sends publicWithdraw; an error is caught and returned as {success: false}
call_withdrawOnOptimism ==
    /\ pc = "u_call"
    /\ arg.fn = "withdrawOnOptimism"
    /\ waits' = Append(waits, <<"optimism", 20>>)
    /\ \E t \in After(20), outcome \in outcomes :
        /\ (outcome # "rejected") =>
               CanWithdraw(dstEscrow, arg.secret, t, dstPublicWithdrawal, dstCancellation)
        /\ txs' = Append(txs, Tx("optimism", "publicWithdraw", "dst",
                                 [NoArgs EXCEPT !.secret = arg.secret,
                                                !.escrowAt = dstEscrow.deployedAt],
                                 t, outcome # "rejected"))
        /\ dstEscrow' = IF outcome = "rejected" THEN dstEscrow
                        ELSE [dstEscrow EXCEPT !.status = "withdrawn"]
        /\ ret' = [failed |-> outcome # "ok", threw |-> FALSE]
        /\ now' = t
    /\ pc' = "u_done"
    /\ UNCHANGED <<callVars, srcEscrow>>

NextUnit ==
    \/ call_verifySha1Hashes
    \/ call_createManualTimelocks
    \/ call_currentAmount
    \/ call_getEscrowEventData
    \/ call_deployDst
    \/ call_validateSecret
    \/ call_withdrawFromDestinationEscrow
    \/ call_withdrawOnAptos
    \/ call_withdrawOnOptimism

----------------------------------------------------------------------------
(* The escrows on their chains *)

Legs == {"src", "dst"}

\* the offsets of a leg as the escrow reads them from the timelocks it was
\* deployed with
LegOffsets(leg) ==
    LET tl == createManualTimelocks(0)
    IN  IF leg = "src"
        THEN [withdrawal |-> tl[1], cancellation |-> tl[3]]
        ELSE [withdrawal |-> tl[5], cancellation |-> tl[7]]

\* the moments around which the phases of an escrow change
EscrowTimes ==
    {x \in {TimelockOffsets[k] + d : k \in 1 .. 7, d \in {-1, 0}} : x > 0}

escrowVars == <<prog, variant, secret, config, srcEscrowEvent, srcLog, queries, arg, swaps,
                mainVars, coordVars, txs, dstCreated, waits, i, pc>>

\* time passes
escrow_tick ==
    /\ pc = "e_run"
    /\ \E t \in EscrowTimes : t > now /\ now' = t
    /\ UNCHANGED <<escrowVars, srcEscrow, dstEscrow, ret>>

\* somebody calls withdraw on a leg with a 32-byte value
escrow_withdraw ==
    /\ pc = "e_run"
    /\ \E leg \in Legs, s \in Bytes32 :
        LET e == IF leg = "src" THEN srcEscrow ELSE dstEscrow
            ok == CanWithdraw(e, s, now, LegOffsets(leg).withdrawal,
                              LegOffsets(leg).cancellation)
            e2 == IF ok THEN [e EXCEPT !.status = "withdrawn"] ELSE e
        IN  /\ srcEscrow' = IF leg = "src" THEN e2 ELSE srcEscrow
            /\ dstEscrow' = IF leg = "dst" THEN e2 ELSE dstEscrow
            /\ ret' = [fn |-> "withdraw", leg |-> leg, secret |-> s,
                       elapsed |-> now - e.deployedAt, before |-> e.status,
                       ok |-> ok]
    /\ UNCHANGED <<escrowVars, now>>

\* somebody calls cancel on a leg
escrow_cancel ==
    /\ pc = "e_run"
    /\ \E leg \in Legs :
        LET e == IF leg = "src" THEN srcEscrow ELSE dstEscrow
            ok == CanCancel(e, now, LegOffsets(leg).cancellation)
            e2 == IF ok THEN [e EXCEPT !.status = "cancelled"] ELSE e
        IN  /\ srcEscrow' = IF leg = "src" THEN e2 ELSE srcEscrow
            /\ dstEscrow' = IF leg = "dst" THEN e2 ELSE dstEscrow
            /\ ret' = [fn |-> "cancel", leg |-> leg, secret |-> -1,
                       elapsed |-> now - e.deployedAt, before |-> e.status,
                       ok |-> ok]
    /\ UNCHANGED <<escrowVars, now>>

NextEscrow ==
    \/ escrow_tick
    \/ escrow_withdraw
    \/ escrow_cancel

----------------------------------------------------------------------------
(* Two calls of processCrossChainEvents on one CrossChainCoordinator; a call *)
(* runs until its next await, then either call may continue.                *)

pairVars == <<prog, variant, secret, config, srcEscrowEvent, srcLog, queries, arg, ret,
              mainVars, coordVars, now, txs, srcEscrow, dstEscrow, dstCreated,
              waits, i, pc>>

\* the number of creations call k has submitted
Created(k) == Cardinality({j \in 1 .. Len(swaps[k].txs) : swaps[k].txs[j][1] = "create"})

\* the catch block with the counter kept in a field of the coordinator
PairCatch_field(k, err, sent) ==
    swaps' = [j \in 1 .. 2 |->
                 IF j = k
                 THEN [swaps[j] EXCEPT !.lastError = err, !.attempt = @ + 1,
                          !.txs = @ \o sent,
                          !.pos = IF swaps[k].attempt + 1 < config.retryAttempts
                                  THEN "delay" ELSE "loop"]
                 ELSE [swaps[j] EXCEPT !.attempt = @ + 1]]

\* the catch block of call k, entered after the transactions sent were
\* submitted: lastError and attempt are locals of the call
PairCatch(k, err, sent) ==
    swaps' = [swaps EXCEPT ![k].lastError = err, ![k].attempt = @ + 1,
                 ![k].txs = @ \o sent,
                 ![k].pos = IF swaps[k].attempt + 1 < config.retryAttempts
                            THEN "delay" ELSE "loop"]

\* generateSha1Hashes, the event data, let attempt = 0
pair_build ==
    /\ pc = "p_run"
    /\ \E k \in 1 .. 2 :
        /\ swaps[k].pos = "start"
        /\ swaps' = [swaps EXCEPT ![k].pos = "loop", ![k].attempt = 0]
    /\ UNCHANGED pairVars

\* while (attempt < retryAttempts): completeCrossChainSwap is called
pair_call ==
    /\ pc = "p_run"
    /\ \E k \in 1 .. 2 :
        /\ swaps[k].pos = "loop"
        /\ swaps[k].attempt < config.retryAttempts
        /\ swaps' = [swaps EXCEPT ![k].pos = "create", ![k].calls = @ + 1]
    /\ UNCHANGED pairVars

\* the loop is left without a result: the error is thrown
pair_exhausted ==
    /\ pc = "p_run"
    /\ \E k \in 1 .. 2 :
        /\ swaps[k].pos = "loop"
        /\ ~(swaps[k].attempt < config.retryAttempts)
        /\ swaps' = [swaps EXCEPT ![k].pos = "failed", ![k].result = "thrown"]
    /\ UNCHANGED pairVars

\* createDestinationEscrow: the verification, then the submission, which the
\* chain fails for the first input.failures creations of the call
pair_create ==
    /\ pc = "p_run"
    /\ \E k \in 1 .. 2 :
        /\ swaps[k].pos = "create"
        /\ IF ~swaps[k].input.matches
           THEN PairCatch(k, "SHA1 hash verification failed", <<>>)
           ELSE IF Created(k) < swaps[k].input.failures
           THEN PairCatch(k, "submit failed", <<<<"create", "failed">>>>)
           ELSE swaps' = [swaps EXCEPT ![k].pos = "wait",
                             ![k].txs = Append(@, <<"create", "ok">>)]
    /\ UNCHANGED pairVars

\* await new Promise(resolve => setTimeout(resolve, retryDelay))
pair_delay ==
    /\ pc = "p_run"
    /\ \E k \in 1 .. 2 :
        /\ swaps[k].pos = "delay"
        /\ swaps' = [swaps EXCEPT ![k].pos = "loop"]
    /\ UNCHANGED pairVars

\* the timed waits of completeCrossChainSwap
pair_wait ==
    /\ pc = "p_run"
    /\ \E k \in 1 .. 2 :
        /\ swaps[k].pos = "wait"
        /\ swaps' = [swaps EXCEPT ![k].pos = "withdraw"]
    /\ UNCHANGED pairVars

\* step 4 of completeCrossChainSwap and the return of the result
pair_withdraw ==
    /\ pc = "p_run"
    /\ \E k \in 1 .. 2 :
        /\ swaps[k].pos = "withdraw"
        /\ swaps' = [swaps EXCEPT ![k].pos = "done",
                        ![k].txs = IF swaps[k].input.withdraw = "noaddr" THEN @
                                   ELSE Append(@, <<"withdraw", swaps[k].input.withdraw>>),
                        ![k].result = swaps[k].input.withdraw]
    /\ UNCHANGED pairVars

NextPair ==
    \/ pair_build
    \/ pair_call
    \/ pair_exhausted
    \/ pair_create
    \/ pair_delay
    \/ pair_wait
    \/ pair_withdraw

\* the transactions a call with input in submits when it runs alone
AloneTxs(in) ==
    IF ~in.matches THEN <<>>
    ELSE IF in.failures >= config.retryAttempts
    THEN [j \in 1 .. config.retryAttempts |-> <<"create", "failed">>]
    ELSE [j \in 1 .. in.failures |-> <<"create", "failed">>]
         \o <<<<"create", "ok">>>>
         \o (IF in.withdraw = "noaddr" THEN <<>> ELSE <<<<"withdraw", in.withdraw>>>>)

\* how a call with input in ends when it runs alone
AloneResult(in) ==
    IF ~in.matches \/ in.failures >= config.retryAttempts THEN "thrown"
    ELSE in.withdraw

NextCoord ==
    \/ processCrossChainEvents_build
    \/ retryLoop_call
    \/ retryLoop_exhausted
    \/ createDestinationEscrow_mismatch
    \/ createDestinationEscrow_submit
    \/ completeCrossChainSwap_wait
    \/ completeCrossChainSwap_withdraw
    \/ completeCrossChainSwap_skip

Next == NextCoord \/ NextMain \/ NextTest \/ NextUnit \/ NextEscrow \/ NextPair

Spec == Init /\ [][Next]_vars

\* the scheduler runs a program that can take a step
FairSpec == Spec /\ WF_vars(Next)

----------------------------------------------------------------------------
(* Properties *)

Terminated == pc \in {"m_done", "m_returned", "m_exit", "c_done", "c_failed",
                      "t_done", "t_failed", "t_noLogs", "u_done"}

TxIndex == 1 .. Len(txs)

IsDstCreate(tx) == tx.fn \in {"deployDst", "escrow::new_from_resolver_entry"}

IsWithdraw(tx) == tx.fn \in {"escrow::withdraw", "publicWithdraw", "withdraw"}

\* the transaction carries the secret bytes in some argument
Reveals(tx) == tx.args.secret = secret \/ tx.args.hash = secret

\* the timelock offset a withdrawal transaction is subject to
WithdrawOffset(tx) ==
    IF tx.fn = "publicWithdraw" THEN dstPublicWithdrawal
    ELSE IF tx.leg = "src" THEN srcWithdrawal
    ELSE dstWithdrawal

\* C1: when a swap orchestration (main, processCrossChainEvents) has ended,
\* the source leg is withdrawn only if the destination escrow was deployed
\* and withdrawn too.
C1_Atomicity ==
    (prog \in {"main", "coord"} /\ Terminated /\ srcEscrow.status = "withdrawn")
        => (dstCreated > 0 /\ dstEscrow.status = "withdrawn")

\* C2: every transaction of a swap orchestration that carries the secret comes
\* after a committed destination-escrow creation, and a destination-escrow
\* creation carries the hash of the secret, never the secret bytes.
C2_SecretRevealedOnlyAfterBothEscrows ==
    prog \in {"main", "coord"} =>
        \A k \in TxIndex :
            /\ Reveals(txs[k]) =>
                   \E j \in 1 .. (k - 1) : IsDstCreate(txs[j]) /\ txs[j].committed
            /\ IsDstCreate(txs[k]) => ~Reveals(txs[k])

\* the receiver commitment of the request is not the commitment of the
\* original receiver address
ReceiverMismatch ==
    /\ prog = "coord"
    /\ srcEscrowEvent.maker # sha1hex(AptosReceiverAddress)

\* C3: a destination-escrow-creation request whose receiver commitment does
\* not match the commitment of the original receiver address is rejected with
\* the verification error, and no transaction is ever submitted for it.
C3_MismatchRejectedWithoutTx ==
    ReceiverMismatch =>
        /\ txs = <<>>
        /\ dstCreated = 0
        /\ createRes = NullRecord
        /\ result = NullRecord
        /\ (attempt > 0 => lastError = "SHA1 hash verification failed")

C3_Witness ==
    /\ ReceiverMismatch
    /\ srcEscrowEvent.token = sha1hex(AptosTakerAssetAddress)
    /\ attempt > 0
    /\ lastError = "SHA1 hash verification failed"

\* C4: a commitment-verification failure is never retried: after it,
\* completeCrossChainSwap has been invoked exactly once and no retry delay
\* has been waited.
C4_MismatchNotRetried ==
    lastError = "SHA1 hash verification failed" =>
        /\ calls = 1
        /\ \A k \in 1 .. Len(waits) : waits[k][1] # "retry"

\* C5: deployDst submits its transactions only once getEscrowEventData has
\* returned event data, and escrow::new_from_resolver_entry is submitted only
\* for event data whose commitments verifySha1Hashes accepts.
C5_DeployOnlyAfterVerifiedEvent ==
    \A k \in TxIndex :
        /\ txs[k].fn \in {"transfer", "arbitraryCalls", "deployDst"} =>
               /\ escrowEventData # NullRecord
               /\ srcEscrow.status # "none"
        /\ txs[k].fn = "escrow::new_from_resolver_entry" =>
               /\ eventData # NullRecord
               /\ srcEscrowEvent.maker = sha1hex(eventData.originalReceiverAddress)
               /\ srcEscrowEvent.token = sha1hex(eventData.originalTakerAssetAddress)

C5_Witness ==
    /\ prog = "coord"
    /\ \E k \in TxIndex : txs[k].fn = "escrow::new_from_resolver_entry"
    /\ calls > 1

\* C6: every withdrawal transaction is submitted no earlier than the leg's own
\* withdrawal offset after the deployment of the escrow it addresses.
C6_WithdrawOnlyAfterTimelock ==
    \A k \in TxIndex :
        IsWithdraw(txs[k]) =>
            txs[k].at - txs[k].args.escrowAt >= WithdrawOffset(txs[k])

\* C7: the hashlock submitted at destination-escrow creation is the hash of
\* the order's secret, the hashlock of the source escrow.
C7_SameHashlock ==
    \A k \in TxIndex :
        IsDstCreate(txs[k]) => txs[k].args.hash = keccak256(secret)

\* C8: the base timestamp deployDst packs into the destination immutables is
\* the time of the destination deployment: it is later than the deployment of
\* the source escrow and not later than the deployment transaction.
C8_DstTimelocksAnchoredAtDeployment ==
    \A k \in TxIndex :
        txs[k].fn = "deployDst" =>
            /\ txs[k].args.base > Lane(srcEscrow.deployedAt, 0)
            /\ txs[k].args.base <= Lane(txs[k].at, 0)

\* C9 (state part): at most retryAttempts calls of completeCrossChainSwap, no
\* call after one returned, and on exhaustion a terminal error holding the
\* attempt count and the last caught error.
C9_RetryInvariant ==
    prog = "coord" =>
        /\ calls <= config.retryAttempts
        /\ attempt <= config.retryAttempts
        /\ calls \in {attempt, attempt + 1}
        /\ (result # NullRecord) => (pc = "c_done" /\ calls = attempt + 1 /\ thrown = NullRecord)
        /\ (pc = "c_failed") =>
               /\ result = NullRecord
               /\ calls = config.retryAttempts
               /\ attempt = calls
               /\ thrown.attempts = calls
               /\ thrown.lastError = lastError
               /\ (calls > 0) = (lastError # Null)

\* C9: processCrossChainEvents makes at most retryAttempts calls of
\* completeCrossChainSwap, stops at the first that returns, always terminates,
\* and when every attempt fails raises an error with the attempt count and the
\* last underlying error.
C9_BoundedRetryTerminates ==
    /\ []C9_RetryInvariant
    /\ <>(prog = "coord" => pc \in {"c_done", "c_failed"})

C9_Witness ==
    /\ pc = "c_failed"
    /\ config.retryAttempts = MaxRetryAttempts
    /\ lastError = "submit failed"

\* C10: once createDestinationEscrow has returned, completeCrossChainSwap does
\* not throw; it returns the creation's transaction hash and escrow address,
\* and a withdrawTxHash only when the withdrawal transaction succeeded.
C10_PartialSuccessReturned ==
    /\ createRes # NullRecord =>
           /\ pc \in {"c_wait", "c_withdraw", "c_done"}
           /\ thrown = NullRecord
           /\ lastError \in {Null, "SHA1 hash verification failed", "submit failed"}
    /\ pc = "c_done" =>
           /\ result.createTxHash = createRes.txHash
           /\ result.escrowAddress = createRes.escrowAddress
           /\ result.withdrawTxHash # Null =>
                  /\ txs[Len(txs)].fn = "escrow::withdraw"
                  /\ txs[Len(txs)].committed
                  /\ dstEscrow.status = "withdrawn"

C10_Witness ==
    /\ pc = "c_done"
    /\ result.escrowAddress # Null
    /\ result.withdrawTxHash = Null
    /\ txs[Len(txs)].fn = "escrow::withdraw"
    /\ ~txs[Len(txs)].committed

\* C11: getSrcDeployEvent returns the pair decoded from the chain's
\* SrcEscrowCreated log whatever the number k < 5 of polls that found no log or
\* threw before, the same pair an immediately successful client yields; it
\* gives up only when all five polls failed.
C11_RetrySameEvent ==
    prog = "test" =>
        /\ pc \in {"t_wait", "t_done"} =>
               /\ srcEscrowEvent = decodeEventLog(srcLog)
               /\ srcEscrowEvent.hashLock = srcEscrow.hashlock
               /\ i < MaxLogAttempts
        /\ pc = "t_noLogs" =>
               /\ i = MaxLogAttempts
               /\ srcEscrowEvent = NullRecord
        /\ pc = "t_getEvent" => srcEscrowEvent = NullRecord

C11_Witness ==
    /\ pc = "t_wait"
    /\ i = MaxLogAttempts - 1
    /\ srcEscrowEvent = decodeEventLog(srcLog)

\* C12: a creation transaction that committed and returned to the program
\* ends with the address of its escrow: a first query that shows no creation
\* event is followed by further queries until the event is seen.
C12_EscrowAddressDiscovered ==
    /\ (prog = "coord" /\ createRes # NullRecord /\ dstEscrow.status # "none")
           => createRes.escrowAddress # Null
    /\ (prog = "main" /\ evmResult # NullRecord /\ dstEscrow.status # "none"
            /\ evmResult.txHash = "deploy_tx")
           => evmResult.escrowAddress # Null

VerifyReturned == prog = "unit" /\ pc = "u_done" /\ arg.fn = "verifySha1Hashes"

\* C13: verifySha1Hashes accepts event data whose two commitments are the ones
\* generateSha1Hashes produces from the two original addresses, whatever the
\* addresses.
C13_VerifyAcceptsCommit ==
    (/\ VerifyReturned
     /\ LET c == generateSha1Hashes(arg.ed.originalReceiverAddress,
                                    arg.ed.originalTakerAssetAddress)
        IN  /\ arg.ed.receiverSha1 = c.receiverSha1
            /\ arg.ed.takerAssetSha1 = c.takerAssetSha1)
        => ret.value = TRUE

C13_Witness ==
    /\ VerifyReturned
    /\ arg.ed.originalReceiverAddress = OtherAddress
    /\ arg.ed.receiverSha1 = generateSha1Hashes(OtherAddress, OtherAddress).receiverSha1
    /\ arg.ed.takerAssetSha1 = generateSha1Hashes(OtherAddress, OtherAddress).takerAssetSha1
    /\ ret.value = TRUE

\* C14: verifySha1Hashes answers true exactly when the digits of the receiver
\* commitment are the digest of the original receiver address and the digits
\* of the asset commitment are the digest of the original asset address,
\* whether a commitment is written after one '0x' or after '0x0x', and in
\* lower-case or upper-case hex digits.
C14_VerifyNormalizes ==
    VerifyReturned =>
        ret.value = (/\ arg.receiver.digits = sha1hex(arg.ed.originalReceiverAddress)
                     /\ arg.asset.digits = sha1hex(arg.ed.originalTakerAssetAddress))

C14_Witness ==
    /\ VerifyReturned
    /\ arg.receiver.doubled /\ arg.receiver.upper
    /\ ~arg.asset.doubled /\ ~arg.asset.upper
    /\ arg.receiver.digits = <<"c", "4">>
    /\ ret.value = TRUE

TimelocksReturned ==
    prog = "unit" /\ pc = "u_done" /\ arg.fn = "createManualTimelocks"

\* C16: for every t that fits one lane, lane 0 of createManualTimelocks(t) is t
\* and lanes 1..7 are srcWithdrawal, srcPublicWithdrawal, srcCancellation,
\* srcPublicCancellation, dstWithdrawal, dstPublicWithdrawal, dstCancellation.
C16_TimelocksRoundTrip ==
    (TimelocksReturned /\ arg.deployedAt < LaneBase) =>
        /\ ~ret.threw
        /\ ret.value[0] = arg.deployedAt
        /\ ret.value[1] = srcWithdrawal
        /\ ret.value[2] = srcPublicWithdrawal
        /\ ret.value[3] = srcCancellation
        /\ ret.value[4] = srcPublicCancellation
        /\ ret.value[5] = dstWithdrawal
        /\ ret.value[6] = dstPublicWithdrawal
        /\ ret.value[7] = dstCancellation

C16_Witness ==
    /\ TimelocksReturned
    /\ arg.deployedAt = LaneBase - 1
    /\ ret.value[0] = LaneBase - 1
    /\ ret.value[7] = dstCancellation

\* C17: createManualTimelocks rejects a deployedAt that does not fit its lane.
C17_OverflowRejected ==
    (TimelocksReturned /\ arg.deployedAt >= LaneBase) => ret.threw

\* the offsets of a record increase strictly within each role
Increasing(tl) ==
    /\ tl[1] < tl[2] /\ tl[2] < tl[3] /\ tl[3] < tl[4]
    /\ tl[5] < tl[6] /\ tl[6] < tl[7]

\* C18: the offsets of every Timelocks record built (by createManualTimelocks
\* for a deployedAt that fits its lane, in deployDst, and for the order of the
\* test) increase strictly within the source role and within the destination
\* role.
C18_OffsetsIncreasing ==
    /\ (TimelocksReturned /\ arg.deployedAt < LaneBase) => Increasing(ret.value)
    /\ (prog = "main" /\ evmResult # NullRecord) =>
           Increasing(evmResult.immutables.timelocks)
    /\ (prog = "test" /\ order # NullRecord) => Increasing(order.timeLocks)

C18_Witness ==
    /\ prog = "main"
    /\ evmResult # NullRecord
    /\ evmResult.immutables.timelocks[0] > 0
    /\ evmResult.immutables.timelocks[6] = dstPublicWithdrawal

\* every submission was accepted, except a withdrawal sent before its offset
NoSubmissionFault ==
    \A k \in TxIndex :
        \/ txs[k].committed
        \/ /\ IsWithdraw(txs[k])
           /\ txs[k].at - txs[k].args.escrowAt < WithdrawOffset(txs[k])

\* C19: a run of main in which the order was accepted, both escrows were
\* deployed and found, and the chains failed no submission ends with both legs
\* withdrawn.
C19_EndToEndWithdrawn ==
    (/\ prog = "main"
     /\ pc = "m_done"
     /\ NoSubmissionFault
     /\ dstCreated = 1
     /\ escrowEventData.escrow.address # Null
     /\ evmResult.escrowAddress = "evm_escrow")
        => (srcEscrow.status = "withdrawn" /\ dstEscrow.status = "withdrawn")

WithdrawReturned == prog = "unit" /\ pc = "u_done" /\ arg \in WithdrawCalls

\* C20: a withdrawal function called with a 32-byte value other than the
\* order's secret fails, on the source leg and on the destination leg, and
\* both escrows stay locked.
C20_WrongSecretFails ==
    (WithdrawReturned /\ arg.status = "locked" /\ arg.secret # secret) =>
        /\ ret.failed
        /\ ~txs[Len(txs)].committed
        /\ srcEscrow.status = "locked"
        /\ dstEscrow.status = "locked"

C20_Witness ==
    /\ WithdrawReturned
    /\ arg.status = "locked"
    /\ arg.secret # secret
    /\ arg.fn = "withdrawOnAptos"
    /\ txs[1].at - srcEscrow.deployedAt >= srcWithdrawal
    /\ txs[1].at - srcEscrow.deployedAt < srcCancellation
    /\ ret.failed

\* the last call made on an escrow
EscrowCalled == prog = "escrow" /\ ret # NullRecord

\* the cancellation offset of a leg
CancellationOf(leg) == IF leg = "src" THEN srcCancellation ELSE dstCancellation

\* C21: a leg still locked at its cancellation offset can be cancelled, a
\* withdrawal attempted at or after that offset is refused, and a leg that was
\* withdrawn or cancelled accepts neither call again.
C21_TimeoutCancellable ==
    EscrowCalled =>
        LET e == IF ret.leg = "src" THEN srcEscrow ELSE dstEscrow
            late == ret.elapsed >= CancellationOf(ret.leg)
        IN  /\ (ret.fn = "withdraw" /\ late) => ~ret.ok
            /\ (ret.fn = "cancel" /\ late /\ ret.before = "locked") =>
                   (ret.ok /\ e.status = "cancelled")
            /\ (ret.before \in {"withdrawn", "cancelled"}) =>
                   (~ret.ok /\ e.status = ret.before)

C21_Witness ==
    /\ EscrowCalled
    /\ ret.fn = "withdraw"
    /\ ret.leg = "src"
    /\ ret.secret = secret
    /\ ret.before = "locked"
    /\ ret.elapsed = srcCancellation
    /\ ~ret.ok
    /\ dstEscrow.status = "cancelled"

\* C22: a withdrawal function called on an escrow that is already withdrawn
\* or cancelled, and refused by the chain for that, reports no failure.
C22_AlreadyTerminalNotFailure ==
    (/\ WithdrawReturned
     /\ arg.fn \in {"withdrawOnAptos", "withdrawOnOptimism"}
     /\ arg.status \in {"withdrawn", "cancelled"}
     /\ ~txs[Len(txs)].committed)
        => ~ret.failed

AuctionReturned == prog = "unit" /\ pc = "u_done" /\ arg.fn = "currentAmount"

\* C23: currentAmount lies between the minimum and the initial amount and never
\* rises as time passes; the amount of the destination escrow main deploys lies
\* between the order's minimum and initial amounts.
C23_PriceBoundedMonotone ==
    /\ AuctionReturned =>
          /\ ret.value >= arg.min
          /\ ret.value <= arg.initial
          /\ \A u \in 0 .. arg.t :
                 currentAmount(arg.initial, arg.min, arg.decay, u) >= ret.value
    /\ (prog = "main" /\ evmResult # NullRecord) =>
          /\ evmResult.immutables.amount >= order.minPrice
          /\ evmResult.immutables.amount <= order.initialPrice

C23_Witness ==
    /\ prog = "main"
    /\ evmResult # NullRecord
    /\ evmResult.immutables.amount = order.minPrice
    /\ dstEscrow.amount = order.minPrice

\* C24: with initial amount 102, minimum 98 and decay 0.2 per second the
\* price after 10 seconds is exactly 100, and from 20 seconds on it is 98
\* (amounts in tenths).
C24_AuctionScenario ==
    (AuctionReturned /\ arg.initial = 1020 /\ arg.min = 980 /\ arg.decay = 2) =>
        /\ arg.t = 10 => ret.value = 1000
        /\ arg.t >= 20 => ret.value = 980

C24_Witness ==
    /\ AuctionReturned
    /\ arg.initial = 1020
    /\ arg.t = 25
    /\ ret.value = 980

PairEnded(k) == prog = "pair" /\ swaps[k].pos \in {"done", "failed"}

IsRetryWait(w) == w[1] = "retry"

\* the delays waited between the attempts of processCrossChainEvents, in order
RetryWaits == SelectSeq(waits, IsRetryWait)

\* C26: each delay between two attempts of processCrossChainEvents is longer
\* than the one before it, and no delay follows the last failed attempt.
C26_RetryDelayIncreasing ==
    prog = "coord" =>
        /\ \A j \in 1 .. Len(RetryWaits) - 1 : RetryWaits[j][2] < RetryWaits[j + 1][2]
        /\ (pc = "c_failed" /\ calls > 0) => Len(RetryWaits) < calls

\* the entry functions by which an escrow is cancelled
CancelFunctions == {"escrow::cancel", "cancel", "publicCancel"}

Orchestrating == prog \in {"coord", "main", "test"}

\* C27: main, deployDst, completeCrossChainSwap and processCrossChainEvents
\* submit no cancellation, whatever fails: an escrow is withdrawn from or left
\* as it is.
C27_NoAutoCancel ==
    Orchestrating =>
        /\ \A k \in TxIndex : txs[k].fn \notin CancelFunctions
        /\ srcEscrow.status \in {"none", "locked", "withdrawn"}
        /\ dstEscrow.status \in {"none", "locked", "withdrawn"}

C27_Witness ==
    /\ prog = "coord"
    /\ pc = "c_done"
    /\ result.withdrawTxHash = Null
    /\ result.escrowAddress # Null
    /\ ~txs[Len(txs)].committed
    /\ IsWithdraw(txs[Len(txs)])
    /\ dstEscrow.status = "locked"

\* the committed creations of a destination escrow among the transactions
CommittedCreations == {k \in TxIndex : IsDstCreate(txs[k]) /\ txs[k].committed}

\* C28: over all the attempts of one call of processCrossChainEvents at most
\* one creation of the destination escrow is committed.
C28_AtMostOneCreation ==
    prog = "coord" => Cardinality(CommittedCreations) <= 1

\* the order's receiver and takerAsset are the commitments of the configured
\* Aptos addresses
CommittedLog(log) ==
    /\ log.maker = HexValue(sha1hex(AptosReceiverAddress))
    /\ log.token = HexValue(sha1hex(AptosTakerAssetAddress))

CommittedEvent(ev) ==
    /\ ev.maker = sha1hex(AptosReceiverAddress)
    /\ ev.token = sha1hex(AptosTakerAssetAddress)

\* C29: for an order whose receiver and takerAsset are the commitments of the
\* configured Aptos addresses, the event getSrcDeployEvent returns gives event
\* data that pass verifySha1Hashes, and processCrossChainEvents never rejects
\* such an event as a mismatch.
C29_CommittedOrderVerifies ==
    /\ (prog = "test" /\ srcEscrowEvent # NullRecord /\ CommittedLog(srcLog)) =>
           verifySha1Hashes(BuildEventData(srcEscrowEvent, secret))
    /\ (prog = "coord" /\ CommittedEvent(srcEscrowEvent)) =>
           /\ eventData # NullRecord => verifySha1Hashes(eventData)
           /\ lastError # "SHA1 hash verification failed"

C29_Witness ==
    /\ prog = "test"
    /\ srcEscrowEvent # NullRecord
    /\ CommittedLog(srcLog)
    /\ BuildEventData(srcEscrowEvent, secret).takerAssetSha1
           = <<"0", "x", "0", "x", "0", "e">>

\* main has submitted the withdrawal on Optimism
OptimismWithdrawalSent == \E k \in TxIndex : txs[k].fn = "publicWithdraw"

\* C30: main calls withdrawOnOptimism only after a deployment that succeeded
\* and from whose receipt an escrow address other than the factory's was
\* taken; with the mock result of deployDst, or with no event found, main ends
\* without the Optimism withdrawal.
C30_OptimismWithdrawalGuarded ==
    prog = "main" =>
        /\ OptimismWithdrawalSent =>
               /\ evmResult.txHash = "deploy_tx"
               /\ evmResult.escrowAddress = "evm_escrow"
        /\ (/\ pc = "m_done"
            /\ \/ evmResult.txHash = "mock_tx_hash"
               \/ evmResult.escrowAddress = Null)
               => ~OptimismWithdrawalSent

C30_Witness ==
    /\ prog = "main"
    /\ pc = "m_done"
    /\ evmResult.txHash = "mock_tx_hash"
    /\ evmResult.escrowAddress = "factory"
    /\ dstCreated = 1
    /\ ~OptimismWithdrawalSent

\* the coordinator has submitted a withdrawal from the destination escrow
AptosWithdrawalSent == \E k \in TxIndex : txs[k].fn = "escrow::withdraw"

\* C31: completeCrossChainSwap submits a withdrawal exactly when
\* createDestinationEscrow returned an escrow address; without one no
\* withdrawal is submitted and the result carries the creation's hash only.
C31_WithdrawIffAddress ==
    prog = "coord" =>
        /\ AptosWithdrawalSent => (pc = "c_done" /\ createRes.escrowAddress # Null)
        /\ pc = "c_done" =>
               /\ AptosWithdrawalSent <=> createRes.escrowAddress # Null
               /\ createRes.escrowAddress = Null =>
                      /\ result.createTxHash = "create_tx"
                      /\ result.withdrawTxHash = Null
                      /\ result.escrowAddress = Null

C31_Witness ==
    /\ prog = "coord"
    /\ pc = "c_done"
    /\ createRes.escrowAddress = Null
    /\ dstEscrow.status = "locked"
    /\ ~AptosWithdrawalSent
    /\ result.createTxHash = "create_tx"

\* what main submits after getEscrowEventData has returned event data
AfterEventFunctions ==
    {"transfer", "arbitraryCalls", "deployDst", "escrow::withdraw", "publicWithdraw"}

\* C32: acceptFusionOrder ends by returning, never by throwing, and when it or
\* getEscrowEventData returns null main stops with no destination escrow
\* deployed and no withdrawal submitted.
C32_NullStopsMain ==
    prog = "main" =>
        /\ (pc = "m_exit" /\ txs # <<>>) =>
               txs[Len(txs)].fn # "escrow::new_from_order_entry"
        /\ pc = "m_returned" =>
               /\ acceptTxHash = Null \/ escrowEventData = NullRecord
               /\ \A k \in TxIndex : txs[k].fn \notin AfterEventFunctions
               /\ dstCreated = 0
               /\ dstEscrow = NoEscrow
               /\ evmResult = NullRecord

C32_Witness ==
    /\ prog = "main"
    /\ pc = "m_returned"
    /\ acceptTxHash = Null
    /\ Len(txs) = 2
    /\ txs[2].committed
    /\ srcEscrow.status = "locked"

EventDataReturned ==
    prog = "unit" /\ pc = "u_done" /\ arg.fn = "getEscrowEventData"

\* C33: getEscrowEventData returns the combined event data exactly when the
\* fetch of the acceptance transaction succeeded and its events hold both a
\* FusionOrderAcceptedEvent and an EscrowCreatedEvent; otherwise it returns
\* null; it never throws.
C33_EventDataIffBothEvents ==
    EventDataReturned =>
        /\ ~ret.threw
        /\ ret.value # NullRecord <=>
               /\ ~arg.resp.threw
               /\ arg.resp.ok
               /\ arg.resp.events = AcceptanceEvents
        /\ ret.value # NullRecord =>
               /\ ret.value.fusionOrder.currentPrice = SampleAcceptance.currentPrice
               /\ ret.value.escrow.address = arg.resp.inner

C33_Witness ==
    /\ EventDataReturned
    /\ arg.resp.ok
    /\ ~arg.resp.threw
    /\ arg.resp.events = {"FusionOrderAcceptedEvent"}
    /\ ret.value = NullRecord

\* the waits getSrcDeployEvent has made, in order
LogWaits == SelectSeq(waits, LAMBDA w : w[1] = "logs")

\* C34: getSrcDeployEvent makes at most 5 attempts and always terminates: each
\* attempt queries the logs by block hash and, on zero logs, by the block's
\* number; a failed attempt is followed by a wait of 2, 3, 4, 5 seconds before
\* attempts 2 to 5; it returns at the first attempt that finds a log; after
\* the 5th failed attempt it throws with no further wait.
C34_LogAttempts ==
    /\ [](prog = "test" =>
            /\ i \in 0 .. 5
            /\ Len(LogWaits) = (IF i = 5 THEN 4 ELSE i)
            /\ \A k \in 1 .. Len(LogWaits) : LogWaits[k][2] = k + 1
            /\ Len(queries) <= 2
            /\ queries # <<>> =>
                   /\ queries[1].by = "blockHash"
                   /\ Len(queries) = 2 =>
                          /\ queries[1].outcome = "empty"
                          /\ queries[2].by = "blockNumber"
                   /\ FoundLogs(queries) <=> pc \notin {"t_getEvent", "t_noLogs"}
            /\ pc = "t_noLogs" => i = 5)
    /\ [][(prog = "test" /\ pc = "t_getEvent") =>
              \/ pc' = "t_getEvent" /\ i' = i + 1
              \/ pc' = "t_wait" /\ i' = i /\ i < 5 /\ waits' = waits
              \/ pc' = "t_noLogs" /\ i = 5 /\ waits' = waits /\ queries' = queries]_vars

C34_Witness ==
    /\ prog = "test"
    /\ pc = "t_noLogs"
    /\ i = 5
    /\ LogWaits = << <<"logs", 2>>, <<"logs", 3>>, <<"logs", 4>>, <<"logs", 5>> >>
    /\ Len(queries) = 2
    /\ queries[2].outcome = "empty"

\* C35: deployDst submits the token transfer, then the approval through
\* arbitraryCalls, then deployDst, in that order; the deployDst transaction is
\* never submitted when the transfer or the approval throws, and deployDst
\* then throws instead of returning a result.
C35_DeployOrder ==
    prog = "main" =>
        /\ \A k \in TxIndex :
               /\ txs[k].fn = "arbitraryCalls" =>
                      k > 1 /\ txs[k - 1].fn = "transfer" /\ txs[k - 1].committed
               /\ txs[k].fn = "deployDst" =>
                      /\ k > 2
                      /\ txs[k - 1].fn = "arbitraryCalls" /\ txs[k - 1].committed
                      /\ txs[k - 2].fn = "transfer"
               /\ txs[k].fn \in {"transfer", "arbitraryCalls", "deployDst"} =>
                      \A j \in TxIndex : txs[j].fn = txs[k].fn => j = k
        /\ (pc = "m_exit" /\ txs # <<>>
              /\ txs[Len(txs)].fn \in {"transfer", "arbitraryCalls"}) =>
               evmResult = NullRecord
        /\ evmResult # NullRecord =>
               \E k \in TxIndex : txs[k].fn = "deployDst"

C35_Witness ==
    /\ prog = "main"
    /\ pc = "m_exit"
    /\ txs # <<>>
    /\ txs[Len(txs)].fn = "arbitraryCalls"
    /\ ~txs[Len(txs)].committed
    /\ evmResult = NullRecord

\* C36: the amount deployDst transfers and approves is never less than the
\* escrow amount it places in the immutables, the accepted current price, for
\* an order of createFusionOrder accepted at any price of its auction.
C36_FundingCoversEscrow ==
    prog = "main" =>
        /\ \A k \in TxIndex :
               txs[k].fn = "deployDst" =>
                   /\ txs[k].args.amount = order.currentPrice
                   /\ txs[k].args.amount \in minDestinationAmount .. initialDestinationAmount
                   /\ k > 2
                   /\ txs[k - 2].fn = "transfer"
                   /\ txs[k - 2].args.amount >= txs[k].args.amount
                   /\ txs[k - 1].fn = "arbitraryCalls"
                   /\ txs[k - 1].args.amount >= txs[k].args.amount
        /\ evmResult # NullRecord => evmResult.immutables.amount <= fundedAmount

C36_Witness ==
    /\ prog = "main"
    /\ evmResult # NullRecord
    /\ evmResult.immutables.amount = 9400
    /\ txs[Len(txs)].fn = "deployDst"
    /\ txs[Len(txs) - 2].args.amount = 10000

\* C37: the native value deployDst sends with the deployment is the safety
\* deposit (10^13 wei) when the destination token is not the zero address, and
\* the safety deposit plus the accepted amount when it is the zero address.
C37_NativeValue ==
    /\ (prog = "unit" /\ pc = "u_done" /\ arg.fn = "deployDst") =>
           /\ ret.value.hi = 10000
           /\ ret.value.lo = (IF arg.token = ZeroAddress THEN arg.currentPrice ELSE 0)
    /\ prog = "main" =>
           \A k \in TxIndex :
               txs[k].fn = "deployDst" => txs[k].args.value = [hi |-> 10000, lo |-> 0]

C37_Witness ==
    /\ prog = "unit"
    /\ pc = "u_done"
    /\ arg.fn = "deployDst"
    /\ arg.token = ZeroAddress
    /\ arg.currentPrice = 9500
    /\ ret.value = [hi |-> 10000, lo |-> 9500]

\* a secret of the right form: its hex digits alone, or after one leading 0x
WellFormedSecret(s) ==
    \/ IsSecretHex(s)
    \/ startsWith(s, <<"0", "x">>) /\ IsSecretHex(SubSeq(s, 3, Len(s)))

\* C38: validateSecret returns true exactly for the hex digits of a secret,
\* optionally preceded by a single leading 0x; every other string (wrong
\* length, other characters, 0x anywhere but at the start) gives false.
C38_ValidSecretForm ==
    (prog = "unit" /\ pc = "u_done" /\ arg.fn = "validateSecret") =>
        (ret.value <=> WellFormedSecret(arg.secret))

====
